---------------------------- MODULE Spec2Model ----------------------------
(***************************************************************************)
(* Scheduling + delivery pipeline of the agentic outreach system.          *)
(*                                                                         *)
(* Time is an integer number of minutes since 00:00 UTC of day 0.  A       *)
(* calendar date is a day number.  The campaign timezone is the fixed      *)
(* America/New_York of MessageScheduler.__init__, taken at its standard    *)
(* offset (UTC-5); daylight-saving switches are not modelled.              *)
(* One campaign is modelled: every store query of the scheduler is         *)
(* filtered by campaign_id, so campaigns do not interact.                  *)
(***************************************************************************)
EXTENDS Integers, Sequences, FiniteSets, TLC

VARIABLES
    now,        \* the wall clock (UTC minutes)
    limits,     \* the campaign's daily sending limit per channel
    store,      \* the messages table: rows in insertion order
    runs,       \* one lead_outreach job execution per worker slot
    errText,    \* the error text last handed to EmailError.categorize
    errResult,  \* the pair categorize returned for errText
    leads,      \* the leads table, by the message that refers to the lead
    contents,   \* subject and content of each message, as one key
    messageRows,    \* the messages table: the delivery and tracking columns
    sendJobs,       \* one send_email job execution per worker slot
    providerCalls,  \* the recipients of every sg_client.send so far
    sleeps,         \* the asyncio.sleep calls of the delivery code so far
    engineCalls,    \* how often send_batch_emails has been invoked
    metrics,        \* email_metrics of the campaign
    hooks,          \* one process_sendgrid_event execution per request slot
    received,       \* the callback events received so far
    answered,       \* the answers of the webhook endpoint so far
    api_clients,        \* EmailSender._api_clients: the clients per API key
    client_timestamps,  \* EmailSender._client_timestamps
    client_usage_count, \* EmailSender._client_usage_count
    poolClock,          \* datetime.utcnow().timestamp(), in seconds
    acquired,           \* what _get_sendgrid_client returned last
    jobs,       \* the jobs table: the status of each job, in queue order
    workers,    \* one RenderWorker process per worker slot
    executed    \* the calls of _execute_job so far

\* the state of the delivery pass
deliveryVars ==
    <<leads, contents, messageRows, sendJobs, providerCalls, sleeps,
      engineCalls>>

\* the state of the delivery event tracker (it shares messageRows)
trackerVars == <<metrics, hooks, received, answered>>

\* the state of the provider client pool of one EmailSender
poolVars ==
    <<api_clients, client_timestamps, client_usage_count, poolClock,
      acquired>>

\* the state of the job queue and its workers
workerVars == <<jobs, workers, executed>>

vars ==
    <<now, limits, store, runs, errText, errResult, deliveryVars,
      trackerVars, poolVars, workerVars>>

---------------------------------------------------------------------------
(* Program constants                                                       *)

BUSINESS_START_HOUR == 9
BUSINESS_END_HOUR == 17
MIN_GAP_MINUTES == 5
max_days_ahead == 14

\* pytz.timezone('America/New_York'): minutes local time is behind UTC
TzOffsetMinutes == 5 * 60

DayMinutes == 24 * 60

\* Python's None for an Optional[datetime]
None == 0 - 1

\* the channels the outreach generator produces sequences for
Channels == {"email", "linkedin"}

\* the channel keys of one date's entry of the occupancy map
StateChannels == {"email", "linkedin"}

---------------------------------------------------------------------------
(* Bounds of the model                                                     *)

\* longest generated sequence of a job in Spec
MaxSteps == 2
\* most rows the messages table ever holds
MaxStore == 2
\* how many of the clock readings below the clock may take
NumInstants == 5
\* longest single-channel sequence in SpecOverflow
MaxOverflowSteps == 16
\* highest daily limit of the campaign
MaxLimit == 2
\* most pieces an error text is made of
MaxWords == 3
\* most messages of a send_email job in SpecSend and SpecRetry
MaxMessages == 2
\* most messages two racing send_email jobs share in SpecAttempts
MaxRaceMessages == 1
\* most messages handed to the batch delivery engine in SpecChunk
MaxChunkMessages == 201
\* most callback events processed one after another in SpecTrackSeq
MaxSeqEvents == 3
\* most callback events processed concurrently in SpecTrack
MaxRaceEvents == 2
\* most callback events of the requests of SpecBatch, in one batch or more
MaxBatchEvents == 2
\* most scheduled messages in the table at the start of SpecSlot
MaxSlotRows == 2

\* the two workers whose lead_outreach jobs may overlap
Runs == {"w1", "w2"}

---------------------------------------------------------------------------
(* Dates and times                                                         *)

\* datetime.date() of a UTC datetime
UtcDate(t) == t \div DayMinutes

\* t.astimezone(tz).date()
LocalDate(t) == (t - TzOffsetMinutes) \div DayMinutes

\* tz.localize(datetime.combine(date, time(hour, 0))), as a UTC instant
Localize(date, hour) == date * DayMinutes + hour * 60 + TzOffsetMinutes

RECURSIVE SeqMax(_)
SeqMax(s) ==
    IF Len(s) = 1 THEN s[1]
    ELSE LET m == SeqMax(Tail(s)) IN IF s[1] > m THEN s[1] ELSE m

---------------------------------------------------------------------------
(* MessageScheduler: the occupancy map and the slot finder                 *)

\* {'count': 0, 'times': []}
EmptyChannel == [count |-> 0, times |-> <<>>]

\* {'email': {'count': 0, 'times': []}, 'linkedin': {'count': 0, 'times': []}}
EmptyDay == [c \in StateChannels |-> EmptyChannel]

\* schedule_state.get(date, <empty day>)
GetDate(schedule_state, date) ==
    IF date \in DOMAIN schedule_state THEN schedule_state[date] ELSE EmptyDay

\* date_schedule.get(channel, {'count': 0, 'times': []})
GetChannel(date_schedule, channel) ==
    IF channel \in DOMAIN date_schedule THEN date_schedule[channel]
    ELSE EmptyChannel

\* daily_limits.get(channel, 0)
GetLimit(daily_limits, channel) ==
    IF channel \in DOMAIN daily_limits THEN daily_limits[channel] ELSE 0

\* A faulty variant of UpdateScheduleState: the count is raised but the slot is not
\* appended to the list of used timestamps.
UpdateScheduleStateNoTime(schedule_state, send_time, channel) ==
    LET send_date == UtcDate(send_time)
        withDate ==
            IF send_date \in DOMAIN schedule_state THEN schedule_state
            ELSE [d \in DOMAIN schedule_state \cup {send_date} |->
                    IF d = send_date THEN EmptyDay ELSE schedule_state[d]]
    IN  IF channel \in DOMAIN withDate[send_date]
        THEN [withDate EXCEPT ![send_date][channel] =
                [count |-> @.count + 1, times |-> @.times]]
        ELSE withDate

\* _update_schedule_state: record one used slot under its (UTC) date
UpdateScheduleState(schedule_state, send_time, channel) ==
    LET send_date == UtcDate(send_time)
        withDate ==
            IF send_date \in DOMAIN schedule_state THEN schedule_state
            ELSE [d \in DOMAIN schedule_state \cup {send_date} |->
                    IF d = send_date THEN EmptyDay ELSE schedule_state[d]]
    IN  IF channel \in DOMAIN withDate[send_date]
        THEN [withDate EXCEPT ![send_date][channel] =
                [count |-> @.count + 1, times |-> Append(@.times, send_time)]]
        ELSE withDate

\* the loop of _get_campaign_schedule_state over the rows the query returned
RECURSIVE OrganizeRows(_, _)
OrganizeRows(rows, schedule_state) ==
    IF rows = <<>> THEN schedule_state
    ELSE LET message == Head(rows)
             send_date == UtcDate(message.send_at)
             withDate ==
                 IF send_date \in DOMAIN schedule_state THEN schedule_state
                 ELSE [d \in DOMAIN schedule_state \cup {send_date} |->
                         IF d = send_date THEN EmptyDay ELSE schedule_state[d]]
             next ==
                 IF message.channel \in DOMAIN withDate[send_date]
                 THEN [withDate EXCEPT ![send_date][message.channel] =
                         [count |-> @.count + 1,
                          times |-> Append(@.times, message.send_at)]]
                 ELSE withDate
         IN  OrganizeRows(Tail(rows), next)

\* the query of _get_campaign_schedule_state:
\* status = 'scheduled' and send_at >= utcnow
ScheduledFromNow(rows, t) ==
    SelectSeq(rows, LAMBDA m : m.status = "scheduled" /\ m.send_at >= t)

\* _get_campaign_schedule_state: the occupancy map, or {} when the read fails
GetCampaignScheduleState(rows, t, read_fails) ==
    IF read_fails THEN << >>
    ELSE OrganizeRows(ScheduledFromNow(rows, t), << >>)

\* A faulty variant of CalculateNextSlotTime: the end of the window is not checked.
CalculateNextSlotTimeNoEnd(target_date, existing_times, t) ==
    LET start0 == Localize(target_date, BUSINESS_START_HOUR)
        start_time ==
            IF target_date = LocalDate(t) /\ t > start0 THEN t + 1 ELSE start0
        day_times ==
            SelectSeq(existing_times, LAMBDA x : LocalDate(x) = target_date)
    IN  IF day_times = <<>> THEN start_time
        ELSE LET next_slot == SeqMax(day_times) + MIN_GAP_MINUTES
             IN  IF next_slot < t THEN t + 1 ELSE next_slot

\* A faulty variant of CalculateNextSlotTime: the gap after the last message is
\* forgotten.
CalculateNextSlotTimeNoGap(target_date, existing_times, t) ==
    LET start0 == Localize(target_date, BUSINESS_START_HOUR)
        end_time == Localize(target_date, BUSINESS_END_HOUR)
        start_time ==
            IF target_date = LocalDate(t) /\ t > start0 THEN t + 1 ELSE start0
        day_times ==
            SelectSeq(existing_times, LAMBDA x : LocalDate(x) = target_date)
    IN  IF day_times = <<>>
        THEN IF start_time < end_time THEN start_time ELSE None
        ELSE LET next_slot == SeqMax(day_times)
             IN  IF next_slot < end_time
                 THEN LET adjusted ==
                              IF next_slot < t THEN t + 1 ELSE next_slot
                      IN  IF adjusted < end_time THEN adjusted ELSE None
                 ELSE None

\* A faulty variant of CalculateNextSlotTime: the window of today starts at
\* BUSINESS_START_HOUR also when that hour has passed.
CalculateNextSlotTimeFromStart(target_date, existing_times, t) ==
    LET start_time == Localize(target_date, BUSINESS_START_HOUR)
        end_time == Localize(target_date, BUSINESS_END_HOUR)
        day_times ==
            SelectSeq(existing_times, LAMBDA x : LocalDate(x) = target_date)
    IN  IF day_times = <<>>
        THEN IF start_time < end_time THEN start_time ELSE None
        ELSE LET next_slot == SeqMax(day_times) + MIN_GAP_MINUTES
             IN  IF next_slot < end_time
                 THEN LET adjusted ==
                              IF next_slot < t THEN t + 1 ELSE next_slot
                      IN  IF adjusted < end_time THEN adjusted ELSE None
                 ELSE None

\* _calculate_next_slot_time: the next slot on target_date, or None
CalculateNextSlotTime(target_date, existing_times, t) ==
    LET start0 == Localize(target_date, BUSINESS_START_HOUR)
        end_time == Localize(target_date, BUSINESS_END_HOUR)
        \* today and the window has started: start one minute from now
        start_time ==
            IF target_date = LocalDate(t) /\ t > start0 THEN t + 1 ELSE start0
        day_times ==
            SelectSeq(existing_times, LAMBDA x : LocalDate(x) = target_date)
    IN  IF day_times = <<>>
        THEN IF start_time < end_time THEN start_time ELSE None
        ELSE LET next_slot == SeqMax(day_times) + MIN_GAP_MINUTES
             IN  IF next_slot < end_time
                 THEN LET adjusted ==
                              IF next_slot < t THEN t + 1 ELSE next_slot
                      IN  IF adjusted < end_time THEN adjusted ELSE None
                 ELSE None

\* the while loop of _find_available_slot from current_date on
RECURSIVE FindFrom(_, _, _, _, _, _, _)
FindFrom(current_date, days_checked, horizon, channel, daily_limit, schedule_state, t) ==
    IF days_checked >= horizon THEN None
    ELSE LET channel_schedule ==
                 GetChannel(GetDate(schedule_state, current_date), channel)
             slot_time ==
                 IF channel_schedule.count < daily_limit
                 THEN CalculateNextSlotTime(current_date,
                                            channel_schedule.times, t)
                 ELSE None
         IN  IF slot_time # None THEN slot_time
             ELSE FindFrom(current_date + 1, days_checked + 1, horizon,
                           channel, daily_limit, schedule_state, t)

\* A faulty variant of FindAvailableSlot: one more day is examined.
FindAvailableSlotLong(target_date, channel, daily_limit, schedule_state, t) ==
    FindFrom(target_date, 0, max_days_ahead + 1, channel, daily_limit,
             schedule_state, t)

\* A faulty variant of FindAvailableSlot: a date is taken as free while its count
\* equals the limit.
FindAvailableSlotNoLimit(target_date, channel, daily_limit, schedule_state, t) ==
    FindFrom(target_date, 0, max_days_ahead, channel, daily_limit + 1,
             schedule_state, t)

\* _find_available_slot
FindAvailableSlot(target_date, channel, daily_limit, schedule_state, t) ==
    FindFrom(target_date, 0, max_days_ahead, channel, daily_limit,
             schedule_state, t)

\* target_date of a step: (datetime.utcnow() + timedelta(days=day_delay)).date()
TargetDate(t, day_delay) == UtcDate(t + day_delay * DayMinutes)

---------------------------------------------------------------------------
(* Inputs: the clock, the campaign and the jobs                            *)

\* campaign-local wall-clock time hh:mm of day d + 1, as a UTC instant
\* (a behaviour starts on day 1)
LocalAt(d, hh, mm) == (d + 1) * DayMinutes + hh * 60 + mm + TzOffsetMinutes

\* the readings the clock takes, in order: before opening, just after
\* opening, just before closing, in the evening (UTC is already on the next
\* date), and on the following days
ClockReading(i) ==
    CASE i = 1 -> LocalAt(0, 8, 0)
      [] i = 2 -> LocalAt(0, 9, 2)
      [] i = 3 -> LocalAt(0, 16, 56)
      [] i = 4 -> LocalAt(0, 20, 0)
      [] i = 5 -> LocalAt(1, 9, 3)
      [] OTHER -> LocalAt(i - 4, 12, 0)

Instants == {ClockReading(i) : i \in 1 .. NumInstants}

\* day_delay values of generated steps
DayDelays == {0, 1}

RECURSIVE SeqsUpTo(_, _)
\* all sequences over S of length at most n
SeqsUpTo(S, n) ==
    IF n = 0 THEN {<<>>}
    ELSE LET shorter == SeqsUpTo(S, n - 1)
         IN  shorter \cup {Append(q, x) : q \in shorter, x \in S}

\* one channel's generated list: day delays with their sequence numbers
ChannelSteps(channel, delays) ==
    [i \in 1 .. Len(delays) |->
        [channel |-> channel, day_delay |-> delays[i], sequence_number |-> i]]

\* sequences.items() flattened in the order the generator fills the dict:
\* the email list, then the linkedin list
Sequences(emailDelays, linkedinDelays) ==
    ChannelSteps("email", emailDelays) \o ChannelSteps("linkedin", linkedinDelays)

\* the campaign's daily limits: the highest email limit comes with
\* linkedin switched off (limit 0)
LimitChoices ==
    {[email |-> l, linkedin |-> IF l = MaxLimit THEN 0 ELSE 1] : l \in 1 .. MaxLimit}

\* a generated list follows the days: its day delays never decrease
NonDecreasing(delays) ==
    \A i \in 1 .. Len(delays) - 1 : delays[i] <= delays[i + 1]

DelayLists == {q \in SeqsUpTo(DayDelays, MaxSteps) : NonDecreasing(q)}

\* the generated sequences of a lead_outreach job
JobInputs ==
    {Sequences(e, l) : e \in DelayLists, l \in SeqsUpTo({0}, MaxSteps)}

\* the jobs of SpecOverflow: one long email sequence aimed at one day,
\* optionally followed by an email step for the next day and by a linkedin
\* step
OverflowInputs ==
    {Sequences([i \in 1 .. n |-> 0] \o tailE, tailL) :
        n \in 1 .. MaxOverflowSteps,
        tailE \in {<<>>, <<1>>},
        tailL \in {<<>>, <<0>>}}

---------------------------------------------------------------------------
(* The delivery pass and the event tracker at rest                         *)

\* a worker slot with no send_email job
IdleSend ==
    [pc |-> "idle", pass |-> "none", selected |-> <<>>, messages |-> <<>>,
     i |-> 0, results |-> <<>>, sent |-> 0, failed |-> 0, k |-> 0,
     current_attempts |-> 0, failed_results |-> <<>>,
     send_data |-> <<>>, retried |-> None]

\* a request slot with no callback event being processed
IdleHook ==
    [pc |-> "idle", batch |-> <<>>, idx |-> 0, processed_count |-> 0,
     error_count |-> 0, event |-> <<>>, current_events |-> <<>>,
     current_metrics |-> <<>>]

\* no message is under delivery and nothing has been handed to the provider
NoDelivery ==
    /\ leads = <<>>
    /\ contents = <<>>
    /\ messageRows = <<>>
    /\ sendJobs = [w \in Runs |-> IdleSend]
    /\ providerCalls = <<>>
    /\ sleeps = <<>>
    /\ engineCalls = 0

\* no callback event has been received
NoTracking ==
    /\ metrics = <<>>
    /\ hooks = <<>>
    /\ received = <<>>
    /\ answered = <<>>

\* the value of _get_sendgrid_client when it returns None
NoClient == [born |-> None]

\* the pool of an EmailSender after __init__, before any acquisition
NoPool ==
    /\ api_clients = <<>>
    /\ client_timestamps = <<>>
    /\ client_usage_count = <<>>
    /\ poolClock = 0
    /\ acquired = <<>>

\* no job is queued and no worker polls
NoWorkers ==
    /\ jobs = <<>>
    /\ workers = <<>>
    /\ executed = <<>>

---------------------------------------------------------------------------
(* The state machine                                                       *)

IdleRun ==
    [pc |-> "idle", sequences |-> <<>>, daily_limits |-> <<>>, idx |-> 0,
     schedule_state |-> <<>>, scheduled_messages |-> <<>>,
     load_error |-> FALSE, raised |-> FALSE]

\* job_data: the generated sequences and the campaign's daily limits
PendingRun(sequences, daily_limits) ==
    [IdleRun EXCEPT !.pc = "pending", !.sequences = sequences,
                    !.daily_limits = daily_limits]

Init ==
    /\ now = ClockReading(1)
    /\ limits \in LimitChoices
    /\ store = <<>>
    /\ runs = [r \in Runs |-> IdleRun]
    /\ errText = <<>>
    /\ errResult = <<>>
    /\ NoDelivery
    /\ NoTracking
    /\ NoPool
    /\ NoWorkers

RECURSIVE SumLen(_)
SumLen(S) ==
    IF S = {} THEN 0
    ELSE LET r == CHOOSE x \in S : TRUE
         IN  Len(runs[r].sequences) + SumLen(S \ {r})

\* the steps of the jobs being executed: rows the table may still receive
InFlight == SumLen(Runs)

\* _handle_lead_outreach up to the call of schedule_outreach_messages: a
\* worker picks a job and has its sequences generated
Submit(r) ==
    /\ runs[r].pc = "idle"
    /\ \E job \in JobInputs :
          /\ Len(job) \in 1 .. MaxSteps
          /\ Len(store) + InFlight + Len(job) <= MaxStore
          /\ runs' = [runs EXCEPT ![r] = PendingRun(job, limits)]
    /\ UNCHANGED <<now, limits, poolVars, workerVars,
                   store, errText, errResult, deliveryVars,
                 trackerVars>>

\* schedule_outreach_messages, line 63: load the occupancy map
LoadWith(r, read_fails) ==
    /\ runs[r].pc = "pending"
    /\ runs' = [runs EXCEPT ![r] =
                 [@ EXCEPT !.pc = "loaded",
                           !.load_error = read_fails,
                           !.schedule_state =
                               GetCampaignScheduleState(store, now, read_fails)]]
    /\ UNCHANGED <<now, limits, poolVars, workerVars,
                   store, errText, errResult, deliveryVars,
                 trackerVars>>

Load(r) == \E read_fails \in BOOLEAN : LoadWith(r, read_fails)

\* the message_data record _schedule_channel_messages builds for a slot
MessageData(message, send_time, t) ==
    [channel |-> message.channel, status |-> "scheduled",
     send_at |-> send_time, created_at |-> t,
     sequence_number |-> message.sequence_number,
     day_delay |-> message.day_delay]

\* one iteration of the loops of schedule_outreach_messages and
\* _schedule_channel_messages: the next step of the sequences
ScheduleStep(run, t) ==
    LET message == run.sequences[run.idx + 1]
        channel_limit == GetLimit(run.daily_limits, message.channel)
        target_date == TargetDate(t, message.day_delay)
        send_time == FindAvailableSlot(target_date, message.channel,
                                       channel_limit, run.schedule_state, t)
        advanced ==
            [run EXCEPT !.idx = @ + 1,
                        !.pc = IF run.idx + 1 = Len(run.sequences)
                               THEN "scheduled" ELSE "loaded"]
    IN  IF channel_limit = 0 \/ send_time = None THEN advanced
        ELSE [advanced EXCEPT
                !.scheduled_messages =
                    Append(@, MessageData(message, send_time, t)),
                !.schedule_state =
                    UpdateScheduleState(@, send_time, message.channel)]

Step(r) ==
    /\ runs[r].pc = "loaded"
    /\ runs' = [runs EXCEPT ![r] = ScheduleStep(runs[r], now)]
    /\ UNCHANGED <<now, limits, poolVars, workerVars,
                   store, errText, errResult, deliveryVars,
                 trackerVars>>

\* the rows bulk_schedule_messages inserts (the columns the pipeline reads)
Rows(scheduled_messages) ==
    [i \in 1 .. Len(scheduled_messages) |->
        [channel |-> scheduled_messages[i].channel,
         send_at |-> scheduled_messages[i].send_at,
         status |-> scheduled_messages[i].status]]

\* A faulty variant of Inserted: a failing insert leaves its first row.
InsertedPartly(rows, write_fails) ==
    IF write_fails THEN <<rows[1]>> ELSE rows

\* the rows the messages table gains by the insert of bulk_schedule_messages:
\* one insert statement adds all the rows or fails and adds none
Inserted(rows, write_fails) == IF write_fails THEN <<>> ELSE rows

\* _handle_lead_outreach after scheduling: one bulk insert, which may fail;
\* the handler returns, or raises "Failed to create messages", and its
\* local state is gone
Persist(r) ==
    /\ runs[r].pc = "scheduled"
    /\ \E write_fails \in BOOLEAN :
          /\ write_fails => runs[r].scheduled_messages # <<>>
          /\ store' = store \o Inserted(Rows(runs[r].scheduled_messages),
                                        write_fails)
          /\ runs' = [runs EXCEPT ![r] =
                [IdleRun EXCEPT !.raised = write_fails]]
    /\ UNCHANGED <<now, limits, poolVars, workerVars,
                   errText, errResult, deliveryVars,
                 trackerVars>>

\* a run is inside the synchronous loop over its steps
InLoop(run) == run.pc = "loaded" /\ run.idx > 0

\* time passes; the loop over the steps of a run has no suspension point
\* and is over within the minute
Tick ==
    /\ \A r \in Runs : ~InLoop(runs[r])
    /\ \E t \in Instants : t > now /\ now' = t
    /\ UNCHANGED <<limits, poolVars, workerVars,
                   store, runs, errText, errResult, deliveryVars,
                 trackerVars>>

\* _handle_send_email: a due scheduled email is handed to the provider and
\* its row is marked sent
Deliver(i) ==
    /\ store[i].status = "scheduled"
    /\ store[i].channel = "email"
    /\ store[i].send_at <= now
    /\ store' = [store EXCEPT ![i].status = "sent"]
    /\ UNCHANGED <<now, limits, poolVars, workerVars,
                   runs, errText, errResult, deliveryVars,
                 trackerVars>>

Next ==
    \/ \E r \in Runs : Submit(r)
    \/ \E r \in Runs : Load(r)
    \/ \E r \in Runs : Step(r)
    \/ \E r \in Runs : Persist(r)
    \/ Tick
    \/ \E i \in 1 .. Len(store) : Deliver(i)

Spec == Init /\ [][Next]_vars

\* Scheduling runs one after another, with store reads that succeed.
SubmitAlone(r) == (\A q \in Runs : runs[q].pc = "idle") /\ Submit(r)

NextSeq ==
    \/ \E r \in Runs : SubmitAlone(r)
    \/ \E r \in Runs : LoadWith(r, FALSE)
    \/ \E r \in Runs : Step(r)
    \/ \E r \in Runs : Persist(r)
    \/ Tick
    \/ \E i \in 1 .. Len(store) : Deliver(i)

SpecSeq == Init /\ [][NextSeq]_vars

\* Two overlapping runs at one instant, with store reads that succeed.
NextRace ==
    \/ \E r \in Runs : Submit(r)
    \/ \E r \in Runs : LoadWith(r, FALSE)
    \/ \E r \in Runs : Step(r)
    \/ \E r \in Runs : Persist(r)

InitRace ==
    /\ now \in Instants
    /\ limits \in LimitChoices
    /\ store = <<>>
    /\ runs = [r \in Runs |-> IdleRun]
    /\ errText = <<>>
    /\ errResult = <<>>
    /\ NoDelivery
    /\ NoTracking
    /\ NoPool
    /\ NoWorkers

SpecRace == InitRace /\ [][NextRace]_vars

\* One run of one long sequence on an empty table.
InitOverflow ==
    /\ now \in Instants
    /\ limits \in {[email |-> l, linkedin |-> 1] : l \in 1 .. MaxLimit}
    /\ store = <<>>
    /\ \E job \in OverflowInputs :
          runs = [r \in Runs |->
                    IF r = "w1" THEN PendingRun(job, limits) ELSE IdleRun]
    /\ errText = <<>>
    /\ errResult = <<>>
    /\ NoDelivery
    /\ NoTracking
    /\ NoPool
    /\ NoWorkers

NextOverflow ==
    \/ \E r \in Runs : Load(r)
    \/ \E r \in Runs : Step(r)
    \/ \E r \in Runs : Persist(r)

SpecOverflow == InitOverflow /\ [][NextOverflow]_vars

\* send_at values of scheduled messages written by create_message: at
\* opening time, at noon and two minutes before closing on day 2, and at
\* noon on day 3
SlotTimes ==
    {LocalAt(1, 9, 0), LocalAt(1, 12, 0), LocalAt(1, 16, 58),
     LocalAt(2, 12, 0)}

\* a scheduled email message of the campaign as create_message inserts it
CreatedRow(send_at) ==
    [channel |-> "email", send_at |-> send_at, status |-> "scheduled"]

\* One run of one email step on a table that holds scheduled messages of
\* the campaign.
InitSlot ==
    /\ now \in Instants
    /\ limits \in {[email |-> l, linkedin |-> 1] : l \in 1 .. MaxLimit}
    /\ \E times \in SeqsUpTo(SlotTimes, MaxSlotRows) :
          store = [i \in 1 .. Len(times) |-> CreatedRow(times[i])]
    /\ \E day_delay \in DayDelays :
          runs = [r \in Runs |->
                    IF r = "w1"
                    THEN PendingRun(Sequences(<<day_delay>>, <<>>), limits)
                    ELSE IdleRun]
    /\ errText = <<>>
    /\ errResult = <<>>
    /\ NoDelivery
    /\ NoTracking
    /\ NoPool
    /\ NoWorkers

NextSlot ==
    \/ \E r \in Runs : LoadWith(r, FALSE)
    \/ \E r \in Runs : Step(r)
    \/ \E r \in Runs : Persist(r)

SpecSlot == InitSlot /\ [][NextSlot]_vars

\* a channel key of sequences and daily_limits other than the two keys of
\* the occupancy map
OtherChannel == "sms"

\* the sequences schedule_outreach_messages may be given: a list of steps
\* per channel key
ChannelInputs ==
    {Sequences(e, l) \o ChannelSteps(OtherChannel, o) :
        e \in DelayLists, l \in DelayLists, o \in DelayLists} \ {<<>>}

\* One run of schedule_outreach_messages over sequences of any channel,
\* with a positive daily limit for every channel, on an empty table.
InitChannel ==
    /\ now \in Instants
    /\ limits \in {[c \in Channels \cup {OtherChannel} |-> l] :
                     l \in 1 .. MaxLimit}
    /\ store = <<>>
    /\ \E job \in ChannelInputs :
          runs = [r \in Runs |->
                    IF r = "w1" THEN PendingRun(job, limits) ELSE IdleRun]
    /\ errText = <<>>
    /\ errResult = <<>>
    /\ NoDelivery
    /\ NoTracking
    /\ NoPool
    /\ NoWorkers

NextChannel ==
    \/ \E r \in Runs : LoadWith(r, FALSE)
    \/ \E r \in Runs : Step(r)
    \/ \E r \in Runs : Persist(r)

SpecChannel == InitChannel /\ [][NextChannel]_vars

---------------------------------------------------------------------------
(* Properties of the scheduler                                             *)

\* the rows of the table that are not cancelled
NonCancelled == {i \in 1 .. Len(store) : store[i].status # "cancelled"}

\* the rows of channel c whose send_at falls on campaign-local date d
RowsOn(S, c, d) ==
    {i \in S : store[i].channel = c /\ LocalDate(store[i].send_at) = d}

StoreDates == {LocalDate(store[i].send_at) : i \in 1 .. Len(store)}

Distance(a, b) == IF a >= b THEN a - b ELSE b - a

\* C1 (capacity invariant): for every channel and every calendar date, the
\* number of non-cancelled messages whose send_at falls on that date never
\* exceeds the campaign's daily limit of the channel.
C1_Capacity ==
    \A c \in Channels : \A d \in StoreDates :
        Cardinality(RowsOn(NonCancelled, c, d)) <= GetLimit(limits, c)

\* C2 (spacing invariant): two distinct messages of the same channel whose
\* send_at fall on the same date are at least MIN_GAP_MINUTES apart.
C2_Spacing ==
    \A i, j \in 1 .. Len(store) :
        (/\ i # j
         /\ store[i].channel = store[j].channel
         /\ LocalDate(store[i].send_at) = LocalDate(store[j].send_at))
        => Distance(store[i].send_at, store[j].send_at) >= MIN_GAP_MINUTES

\* the rows with status scheduled
ScheduledRows == {i \in 1 .. Len(store) : store[i].status = "scheduled"}

\* C4 (concurrent runs): whatever the interleaving of two runs, the
\* persisted scheduled messages of a channel and date number at most the
\* daily limit and no two of them share their send_at.
C4_NoJointOverbooking ==
    /\ \A c \in Channels : \A d \in StoreDates :
          Cardinality(RowsOn(ScheduledRows, c, d)) <= GetLimit(limits, c)
    /\ \A i, j \in ScheduledRows :
          (i # j /\ store[i].channel = store[j].channel)
          => store[i].send_at # store[j].send_at

\* C9 (failed read): a run whose read of the message store failed produces
\* no message and does not report success.
C9_ReadFailureFailsRun ==
    \A r \in Runs :
        runs[r].load_error
        => runs[r].scheduled_messages = <<>> /\ runs[r].pc # "scheduled"

\* the business window of the campaign-local date of instant t holds t
InWindow(t) ==
    /\ Localize(LocalDate(t), BUSINESS_START_HOUR) <= t
    /\ t < Localize(LocalDate(t), BUSINESS_END_HOUR)

\* the timestamps the occupancy map of a run holds for a channel and the
\* UTC date of instant t
TimesAt(run, channel, t) ==
    GetChannel(GetDate(run.schedule_state, UtcDate(t)), channel).times

SeqRange(q) == {q[i] : i \in 1 .. Len(q)}

CapOK(run) ==
    \A d \in DOMAIN run.schedule_state : \A c \in StateChannels :
        run.schedule_state[d][c].count <= GetLimit(run.daily_limits, c)

\* every entry of the occupancy map counts its timestamps
CountIsLen(run) ==
    \A d \in DOMAIN run.schedule_state : \A c \in StateChannels :
        run.schedule_state[d][c].count = Len(run.schedule_state[d][c].times)

\* worker r processes one step of its sequences in this transition
IsStep(r) == runs[r].pc = "loaded" /\ runs'[r].idx = runs[r].idx + 1

\* C5 (occupancy map): the loaded map counts its timestamps, and a step of
\* a run that starts from a map whose entries are all within the daily limit
\* and count their timestamps leaves such a map.
C5_OccupancyMap ==
    [][\A r \in Runs :
          /\ (runs[r].pc = "pending" /\ runs'[r].pc = "loaded")
                => CountIsLen(runs'[r])
          /\ (IsStep(r) /\ CapOK(runs[r]) /\ CountIsLen(runs[r]))
                => (CapOK(runs'[r]) /\ CountIsLen(runs'[r]))]_vars

\* a run has filled a date up to a daily limit of two with its own steps
C5_Witness ==
    \E r \in Runs : \E d \in DOMAIN runs[r].schedule_state :
        /\ Len(runs[r].scheduled_messages) = 2
        /\ GetLimit(runs[r].daily_limits, "email") = 2
        /\ runs[r].schedule_state[d]["email"].count = 2
        /\ CapOK(runs[r])

RECURSIVE SumCounts(_, _)
\* the sum of all counts of an occupancy map over the dates S
SumCounts(schedule_state, S) ==
    IF S = {} THEN 0
    ELSE LET d == CHOOSE x \in S : TRUE
         IN  schedule_state[d]["email"].count
             + schedule_state[d]["linkedin"].count
             + SumCounts(schedule_state, S \ {d})

\* the run loaded an empty occupancy map: the map holds its own slots only
LoadedEmpty(run) ==
    SumCounts(run.schedule_state, DOMAIN run.schedule_state)
        = Len(run.scheduled_messages)

\* the first two steps of the run are of one channel with a limit of two or
\* more, aim at the same date, are both processed, and the map was empty
TwoStepsSameDate(run) ==
    /\ run.idx >= 2
    /\ run.sequences[1].channel = run.sequences[2].channel
    /\ run.sequences[1].day_delay = run.sequences[2].day_delay
    /\ GetLimit(run.daily_limits, run.sequences[1].channel) >= 2
    /\ LoadedEmpty(run)

\* the first slot on an empty map: the opening time of its date, or one
\* minute after the current time
FirstSlotOK(m) ==
    /\ InWindow(m.send_at)
    /\ \/ m.send_at = Localize(LocalDate(m.send_at), BUSINESS_START_HOUR)
       \/ m.send_at = m.created_at + 1

\* successive accepted steps of a channel on one date are MIN_GAP_MINUTES
\* or more apart, in their order
OrderedOnDate(run) ==
    \A i, j \in 1 .. Len(run.scheduled_messages) :
        LET a == run.scheduled_messages[i]
            b == run.scheduled_messages[j]
        IN  (i < j /\ a.channel = b.channel
                   /\ UtcDate(a.send_at) = UtcDate(b.send_at))
            => b.send_at >= a.send_at + MIN_GAP_MINUTES

\* C6 as stated: on an empty map with a limit of two or more, two steps of
\* one channel aimed at one date get s1 (opening time, or now + 1 minute) and
\* s2 = s1 + 5 minutes, both inside the business window; and successive
\* accepted steps on a date are 5 minutes or more apart.
C6_Original ==
    \A r \in Runs :
        /\ TwoStepsSameDate(runs[r])
             => /\ Len(runs[r].scheduled_messages) >= 2
                /\ LET s1 == runs[r].scheduled_messages[1]
                       s2 == runs[r].scheduled_messages[2]
                   IN  /\ FirstSlotOK(s1)
                       /\ InWindow(s2.send_at)
                       /\ s2.send_at = s1.send_at + MIN_GAP_MINUTES
        /\ OrderedOnDate(runs[r])

\* C6 (order within a run), amended: s2 = s1 + 5 minutes when that is still
\* before the end of the business window of s1's date, and otherwise s2 is
\* the opening time of the following date.
C6_InRunOrder ==
    \A r \in Runs :
        /\ TwoStepsSameDate(runs[r])
             => /\ Len(runs[r].scheduled_messages) >= 2
                /\ LET s1 == runs[r].scheduled_messages[1]
                       s2 == runs[r].scheduled_messages[2]
                       d1 == LocalDate(s1.send_at)
                   IN  /\ FirstSlotOK(s1)
                       /\ InWindow(s2.send_at)
                       /\ s2.send_at =
                            IF s1.send_at + MIN_GAP_MINUTES
                                 < Localize(d1, BUSINESS_END_HOUR)
                            THEN s1.send_at + MIN_GAP_MINUTES
                            ELSE Localize(d1 + 1, BUSINESS_START_HOUR)
        /\ OrderedOnDate(runs[r])

\* two steps aimed at one date of which the second had to move to the
\* following date
C6_Witness ==
    \E r \in Runs :
        /\ TwoStepsSameDate(runs[r])
        /\ Len(runs[r].scheduled_messages) >= 2
        /\ LocalDate(runs[r].scheduled_messages[2].send_at)
             = LocalDate(runs[r].scheduled_messages[1].send_at) + 1

\* the first k steps of the run are email steps aimed at today's UTC date
EmailStepsForToday(run, k) ==
    \A i \in 1 .. k :
        run.sequences[i].channel = "email" /\ run.sequences[i].day_delay = 0

\* the business window of date d has not opened yet at instant t
NotYetOpen(d, t) == t <= Localize(d, BUSINESS_START_HOUR)

HasSlot(run, channel, d, t) ==
    LET channel_schedule == GetChannel(GetDate(run.schedule_state, d), channel)
    IN  /\ channel_schedule.count < GetLimit(run.daily_limits, channel)
        /\ CalculateNextSlotTime(d, channel_schedule.times, t) # None

\* none of the max_days_ahead dates from the target date of the next step
\* of the run has a slot
NextStepUnavailable(run, t) ==
    LET message == run.sequences[run.idx + 1]
        target_date == TargetDate(t, message.day_delay)
    IN  \A d \in target_date .. target_date + max_days_ahead - 1 :
            ~HasSlot(run, message.channel, d, t)

\* C8 (scheduling-unavailable): a step of a channel with a daily limit gets
\* no message exactly when none of the 14 dates target_date ..
\* target_date+13 has a slot; then the occupancy map is unchanged and the
\* run goes on with the next step; the run ends reporting success once
\* every step has been processed, and only then.
C8_UnavailableIsSkipped ==
    [][\A r \in Runs :
          IsStep(r) =>
            LET run == runs[r]
                message == run.sequences[run.idx + 1]
                unavailable == NextStepUnavailable(run, now)
            IN  /\ GetLimit(run.daily_limits, message.channel) > 0
                  => /\ unavailable
                        <=> (runs'[r].scheduled_messages = run.scheduled_messages)
                     /\ unavailable
                        => runs'[r].schedule_state = run.schedule_state
                /\ runs'[r].pc = IF runs'[r].idx = Len(run.sequences)
                                 THEN "scheduled" ELSE "loaded"]_vars

\* a run has reported success although its fifteenth email step found no
\* slot, and the linkedin step after it was scheduled
C8_Witness ==
    \E r \in Runs :
        LET run == runs[r]
            n == Len(run.scheduled_messages)
        IN  /\ run.pc = "scheduled"
            /\ GetLimit(run.daily_limits, "email") = 1
            /\ Len(run.sequences) > max_days_ahead + 1
            /\ EmailStepsForToday(run, max_days_ahead + 1)
            /\ n = Len(run.sequences) - 1
            /\ run.scheduled_messages[n].channel = "linkedin"

---------------------------------------------------------------------------
(* EmailError: the error classifier                                        *)
(* A text is a sequence of one-character strings.                          *)

UpperLetters ==
    <<"A", "B", "C", "D", "E", "F", "G", "H", "I", "J", "K", "L", "M",
      "N", "O", "P", "Q", "R", "S", "T", "U", "V", "W", "X", "Y", "Z">>

LowerLetters ==
    <<"a", "b", "c", "d", "e", "f", "g", "h", "i", "j", "k", "l", "m",
      "n", "o", "p", "q", "r", "s", "t", "u", "v", "w", "x", "y", "z">>

\* str.lower() of one character
LowerChar(c) ==
    IF \E i \in 1 .. Len(UpperLetters) : UpperLetters[i] = c
    THEN LowerLetters[CHOOSE i \in 1 .. Len(UpperLetters) : UpperLetters[i] = c]
    ELSE c

\* str(error_message).lower()
Lower(text) == [i \in 1 .. Len(text) |-> LowerChar(text[i])]

\* pattern in text
Contains(pattern, text) ==
    \E i \in 0 .. Len(text) - Len(pattern) :
        SubSeq(text, i + 1, i + Len(pattern)) = pattern

\* EmailError.ERROR_PATTERNS, in the order of the dict
ERROR_PATTERNS ==
  <<
     [category |-> "rate_limit",
      patterns |-> <<
           <<"r", "a", "t", "e", " ", "l", "i", "m", "i", "t">>,
           <<"t", "o", "o", " ", "m", "a", "n", "y", " ", "r", "e", "q", "u", "e", "s", "t", "s">>,
           <<"4", "2", "9">>>>],
     [category |-> "authentication",
      patterns |-> <<
           <<"u", "n", "a", "u", "t", "h", "o", "r", "i", "z", "e", "d">>,
           <<"i", "n", "v", "a", "l", "i", "d", " ", "a", "p", "i", " ", "k", "e", "y">>,
           <<"4", "0", "1">>,
           <<"4", "0", "3">>>>],
     [category |-> "invalid_email",
      patterns |-> <<
           <<"i", "n", "v", "a", "l", "i", "d", " ", "e", "m", "a", "i", "l">>,
           <<"b", "a", "d", " ", "r", "e", "c", "i", "p", "i", "e", "n", "t">>,
           <<"i", "n", "v", "a", "l", "i", "d", " ", "a", "d", "d", "r", "e", "s", "s">>,
           <<"5", "5", "0">>>>],
     [category |-> "content_error",
      patterns |-> <<
           <<"c", "o", "n", "t", "e", "n", "t">>,
           <<"s", "p", "a", "m">>,
           <<"b", "l", "o", "c", "k", "e", "d">>,
           <<"r", "e", "j", "e", "c", "t", "e", "d">>>>],
     [category |-> "network_error",
      patterns |-> <<
           <<"c", "o", "n", "n", "e", "c", "t", "i", "o", "n">>,
           <<"t", "i", "m", "e", "o", "u", "t">>,
           <<"n", "e", "t", "w", "o", "r", "k">>,
           <<"d", "n", "s">>>>],
     [category |-> "temporary_error",
      patterns |-> <<
           <<"t", "e", "m", "p", "o", "r", "a", "r", "y">>,
           <<"t", "r", "y", " ", "a", "g", "a", "i", "n">>,
           <<"5", "0", "3">>,
           <<"5", "0", "4">>>>],
     [category |-> "permanent_error",
      patterns |-> <<
           <<"p", "e", "r", "m", "a", "n", "e", "n", "t">>,
           <<"b", "o", "u", "n", "c", "e">>,
           <<"5", "5", "1">>,
           <<"5", "5", "2">>,
           <<"5", "5", "3">>>>]
  >>

\* A faulty variant of RetryableCategories: network errors are final.
RetryableNoNetwork == {"rate_limit", "temporary_error"}

\* the categories categorize flags as retryable
RetryableCategories == {"rate_limit", "network_error", "temporary_error"}

\* the categories of ERROR_PATTERNS one of whose patterns occurs in text
Matching(text) ==
    {k \in 1 .. Len(ERROR_PATTERNS) :
        \E j \in 1 .. Len(ERROR_PATTERNS[k].patterns) :
            Contains(ERROR_PATTERNS[k].patterns[j], text)}

\* A faulty variant of Categorize: rate_limit is missing from the retryable list.
CategorizeRateLimitFinal(error_message) ==
    LET hits == Matching(Lower(error_message))
    IN  IF hits = {} THEN <<"unknown", FALSE>>
        ELSE LET k == CHOOSE x \in hits : \A y \in hits : x <= y
                 category == ERROR_PATTERNS[k].category
             IN  <<category, category \in RetryableCategories \ {"rate_limit"}>>

\* A faulty variant of Categorize: the last category with a pattern that
\* occurs in the text wins.
CategorizeLastMatch(error_message) ==
    LET hits == Matching(Lower(error_message))
    IN  IF hits = {} THEN <<"unknown", FALSE>>
        ELSE LET k == CHOOSE x \in hits : \A y \in hits : x >= y
                 category == ERROR_PATTERNS[k].category
             IN  <<category, category \in RetryableCategories>>

\* EmailError.categorize: the first category, in dict order, with a pattern
\* that occurs in the lower-cased text, and whether it is retryable
Categorize(error_message) ==
    LET hits == Matching(Lower(error_message))
    IN  IF hits = {} THEN <<"unknown", FALSE>>
        ELSE LET k == CHOOSE x \in hits : \A y \in hits : x <= y
                 category == ERROR_PATTERNS[k].category
             IN  <<category, category \in RetryableCategories>>

\* the pieces error texts are made of
Fragments ==
    {<<"4", "2", "9">>,
     <<" ">>,
     <<"r", "a", "t", "e", " ", "l", "i", "m", "i", "t">>,
     <<"4", "0", "1">>,
     <<"u", "n", "a", "u", "t", "h", "o", "r", "i", "z", "e", "d">>,
     <<"g", "a", "r", "b", "a", "g", "e">>,
     <<"T", "i", "m", "e", "o", "u", "t">>,
     <<"R", "e", "j", "e", "c", "t", "e", "d">>,
     <<"T", "o", "o", " ", "M", "a", "n", "y">>,
     <<" ", "R", "e", "q", "u", "e", "s", "t", "s">>}

RECURSIVE Concat(_)
\* the concatenation of a sequence of texts
Concat(texts) ==
    IF texts = <<>> THEN <<>> ELSE Head(texts) \o Concat(Tail(texts))

\* the error texts: one to MaxWords pieces
ErrorTexts ==
    {Concat(q) : q \in SeqsUpTo(Fragments, MaxWords) \ {<<>>}}

InitClassify ==
    /\ now = ClockReading(1)
    /\ limits = [email |-> 1, linkedin |-> 1]
    /\ store = <<>>
    /\ runs = [r \in Runs |-> IdleRun]
    /\ errText \in ErrorTexts
    /\ errResult = <<>>
    /\ NoDelivery
    /\ NoTracking
    /\ NoPool
    /\ NoWorkers

\* a failed send is classified
CategorizeError ==
    /\ errResult = <<>>
    /\ errResult' = Categorize(errText)
    /\ UNCHANGED <<now, limits, poolVars, workerVars,
                   store, runs, errText, deliveryVars,
                 trackerVars>>

NextClassify == CategorizeError

SpecClassify == InitClassify /\ [][NextClassify]_vars

Text429RateLimit == <<"4", "2", "9", " ", "r", "a", "t", "e", " ", "l", "i", "m", "i", "t">>

Text401Unauthorized == <<"4", "0", "1", " ", "u", "n", "a", "u", "t", "h", "o", "r", "i", "z", "e", "d">>

TextGarbage == <<"g", "a", "r", "b", "a", "g", "e">>

\* C10 (classifier): "429 rate limit" is classified (rate_limit, retryable),
\* "401 unauthorized" (authentication, not retryable), and a text in which
\* no pattern occurs (such as "garbage") (unknown, not retryable).
C10_ClassifierCases ==
    errResult # <<>> =>
        /\ errText = Text429RateLimit => errResult = <<"rate_limit", TRUE>>
        /\ errText = Text401Unauthorized
             => errResult = <<"authentication", FALSE>>
        /\ errText = TextGarbage => errResult = <<"unknown", FALSE>>
        /\ Matching(Lower(errText)) = {} => errResult = <<"unknown", FALSE>>

\* "429 rate limit" has been classified
C10_Witness ==
    errText = Text429RateLimit /\ errResult = <<"rate_limit", TRUE>>


---------------------------------------------------------------------------
(* The batch delivery engine (EmailSender)                                 *)

BATCH_SIZE == 100

\* Python's None for an identifier, and the absence of an error text
NoId == ""
NoText == <<>>

\* what _get_lead_data_sync finds for the lead of a message: a lead with an
\* address ("ok"), no lead or a lead without address ("missing", also when
\* the read raises: the exception is swallowed and None returned), or a lead
\* whose data make building the personalization raise ("bad")
LeadKinds == {"ok", "missing", "bad"}

\* _get_lead_data_sync
GetLeadDataSync(m) == leads[m]

\* the error text of a message whose lead has no usable address
TextLeadMissing ==
    <<"L", "e", "a", "d", " ", "d", "a", "t", "a", " ", "n", "o", "t", " ", "f", "o", "u", "n", "d", " ", "o", "r", " ", "m", "i", "s", "s", "i", "n", "g", " ", "e", "m", "a", "i", "l">>

\* str(e) of the exception raised while a personalization is built
TextPersonalization == <<"e", "x", "p", "e", "c", "t", "e", "d", " ", "s", "t", "r">>

\* an exception with str(e) = text, together with the pair
\* EmailError.categorize returns for that text
ExceptionOf(text) == [text |-> text, classified |-> Categorize(text)]

\* the provider answers 429, the provider answers 401, and the exception
\* of a personalization that cannot be built
RateLimited == ExceptionOf(Text429RateLimit)
Unauthorized == ExceptionOf(Text401Unauthorized)
PersonalizationError == ExceptionOf(TextPersonalization)
NoException == [text |-> NoText, classified |-> <<"", FALSE>>]

\* what sg_client.send may do with one Mail: accept it and name it in the
\* X-Message-Id header, accept it without that header, or raise
ProviderResponses ==
    {[raises |-> FALSE, error |-> NoException, x_message_id |-> "sg-id"],
     [raises |-> FALSE, error |-> NoException, x_message_id |-> NoId],
     [raises |-> TRUE, error |-> RateLimited, x_message_id |-> NoId],
     [raises |-> TRUE, error |-> Unauthorized, x_message_id |-> NoId]}

\* a result entry with error, error_category and is_retryable
ErrorEntry(m, text, category, retryable) ==
    [message_id |-> m, sendgrid_message_id |-> NoId, status_code |-> None,
     error |-> text, error_category |-> category, is_retryable |-> retryable]

\* a result entry of a classified exception
ClassifiedEntry(m, e) ==
    ErrorEntry(m, e.text, e.classified[1], e.classified[2])

\* a result entry with sendgrid_message_id and status_code
SuccessEntry(m, id) ==
    [message_id |-> m, sendgrid_message_id |-> id, status_code |-> 202,
     error |-> NoText, error_category |-> "", is_retryable |-> FALSE]

\* the messages of a batch whose lead has no usable address
MissingLead(batch) ==
    SelectSeq(batch, LAMBDA m : GetLeadDataSync(m) = "missing")

\* the keys of content_groups in insertion order
RECURSIVE ContentKeys(_, _)
ContentKeys(batch, seen) ==
    IF batch = <<>> THEN <<>>
    ELSE LET m == Head(batch)
             content_key == contents[m]
         IN  IF GetLeadDataSync(m) = "missing" \/ content_key \in seen
             THEN ContentKeys(Tail(batch), seen)
             ELSE <<content_key>>
                  \o ContentKeys(Tail(batch), seen \cup {content_key})

\* content_groups[content_key]['recipients']
Recipients(batch, content_key) ==
    SelectSeq(batch, LAMBDA m : /\ GetLeadDataSync(m) # "missing"
                                /\ contents[m] = content_key)

\* A faulty variant of Personalizations: every recipient of the chunk is
\* put into the Mail of every group.
PersonalizationsAll(batch, content_key) ==
    SelectSeq(batch, LAMBDA m : GetLeadDataSync(m) = "ok")

\* mail.personalizations of a content group: the recipients whose
\* personalization was built
Personalizations(batch, content_key) ==
    SelectSeq(Recipients(batch, content_key),
              LAMBDA m : GetLeadDataSync(m) = "ok")

\* one content group is sent: the results, counts and provider call of it
SendGroup(batch, content_key, response) ==
    LET recipients == Recipients(batch, content_key)
        rejected == SelectSeq(recipients,
                              LAMBDA m : GetLeadDataSync(m) # "ok")
        personalizations == Personalizations(batch, content_key)
        called == personalizations # <<>>
    IN  [results |->
             [j \in 1 .. Len(rejected) |->
                 ClassifiedEntry(rejected[j], PersonalizationError)]
             \o (IF ~called THEN <<>>
                 ELSE IF response.raises
                 THEN [j \in 1 .. Len(personalizations) |->
                          ClassifiedEntry(personalizations[j], response.error)]
                 ELSE [j \in 1 .. Len(personalizations) |->
                          SuccessEntry(personalizations[j],
                                       response.x_message_id)]),
         sent |-> IF called /\ ~response.raises
                  THEN Len(personalizations) ELSE 0,
         failed |-> Len(rejected)
                    + (IF called /\ response.raises
                       THEN Len(personalizations) ELSE 0),
         calls |-> IF called THEN <<personalizations>> ELSE <<>>]

\* the loop over content_groups
RECURSIVE SendGroups(_, _, _)
SendGroups(batch, keys, responses) ==
    IF keys = <<>>
    THEN [results |-> <<>>, sent |-> 0, failed |-> 0, calls |-> <<>>]
    ELSE LET first == SendGroup(batch, Head(keys), responses[Head(keys)])
             rest == SendGroups(batch, Tail(keys), responses)
         IN  [results |-> first.results \o rest.results,
              sent |-> first.sent + rest.sent,
              failed |-> first.failed + rest.failed,
              calls |-> first.calls \o rest.calls]

\* A faulty variant of SendBatchWithPersonalizations: a message whose lead
\* has no usable address gets no result entry.
SendBatchDroppingMissing(batch, responses) ==
    SendGroups(batch, ContentKeys(batch, {}), responses)

\* _send_batch_with_personalizations
SendBatchWithPersonalizations(batch, responses) ==
    LET missing == MissingLead(batch)
        groups == SendGroups(batch, ContentKeys(batch, {}), responses)
    IN  [results |->
             [j \in 1 .. Len(missing) |->
                 ErrorEntry(missing[j], TextLeadMissing, "invalid_email",
                            FALSE)]
             \o groups.results,
         sent |-> groups.sent,
         failed |-> Len(missing) + groups.failed,
         calls |-> groups.calls]

Min(a, b) == IF a < b THEN a ELSE b

\* messages[i:i + BATCH_SIZE]
Batch(messages, i) ==
    SubSeq(messages, i + 1, Min(i + BATCH_SIZE, Len(messages)))

\* A faulty variant of MoreChunks: the last chunk is followed by a delay too.
MoreChunksAlways(messages, i) == i < Len(messages)

\* one chunk is followed by a delay when messages remain after it
MoreChunks(messages, i) == i + BATCH_SIZE < Len(messages)

\* send_batch_emails, one iteration of the loop over the chunks: the chunk
\* is sent, its results are added, and the engine sleeps one second when
\* messages remain or returns its summary to the caller
SendChunk(w) ==
    LET job == sendJobs[w]
        batch == Batch(job.messages, job.i)
    IN  /\ job.pc = "sending"
        /\ \E responses \in
                 [{contents[batch[j]] : j \in 1 .. Len(batch)}
                    -> ProviderResponses] :
              LET batch_result ==
                      SendBatchWithPersonalizations(batch, responses)
                  more == MoreChunks(job.messages, job.i)
              IN  /\ sendJobs' = [sendJobs EXCEPT ![w] =
                        [job EXCEPT
                            !.sent = @ + batch_result.sent,
                            !.failed = @ + batch_result.failed,
                            !.results = @ \o batch_result.results,
                            !.i = @ + BATCH_SIZE,
                            !.k = 1,
                            !.pc = IF more THEN "sending" ELSE "updating"]]
                  /\ providerCalls' = providerCalls \o batch_result.calls
                  /\ sleeps' = IF more THEN Append(sleeps, 1) ELSE sleeps
        /\ UNCHANGED <<now, limits, poolVars, workerVars,
                       store, runs, errText, errResult, leads,
                       contents, messageRows, engineCalls, trackerVars>>

\* send_batch_emails returning success = False: no client is obtained for
\* the key, or an exception escapes the loop over the chunks; the handler
\* raises after the first pass and skips the status updates after a retry
SendBatchFails(w) ==
    LET job == sendJobs[w]
    IN  /\ job.pc = "sending"
        /\ sendJobs' = [sendJobs EXCEPT ![w] =
              [job EXCEPT
                  !.pc = IF job.pass = "initial" THEN "raised" ELSE "done",
                  !.results = <<>>, !.sent = 0, !.failed = 0]]
        /\ UNCHANGED <<now, limits, poolVars, workerVars,
                       store, runs, errText, errResult, leads,
                       contents, messageRows, providerCalls, sleeps,
                       engineCalls, trackerVars>>

---------------------------------------------------------------------------
(* The send_email job handler and the retry coordinator                    *)

\* a row of the messages table as the scheduler's bulk insert leaves it
ScheduledRow ==
    [status |-> "scheduled", send_attempts |-> 0,
     sendgrid_message_id |-> NoId, tracking_events |-> <<>>,
     timestamps |-> {}]

\* the ids of the rows of the messages table, in table order
MessageIds == 1 .. Len(messageRows)

\* the rows with status scheduled among message_ids
ScheduledAmong(message_ids) ==
    SelectSeq([m \in MessageIds |-> m],
              LAMBDA m : /\ m \in message_ids
                         /\ messageRows[m].status = "scheduled")

\* _handle_send_email up to the first call of send_batch_emails: the
\* scheduled email messages of the job are selected and handed to the engine
StartSendEmail(w) ==
    /\ sendJobs[w].pc = "idle"
    /\ LET messages == ScheduledAmong(MessageIds)
       IN  /\ messages # <<>>
           /\ sendJobs' = [sendJobs EXCEPT ![w] =
                 [IdleSend EXCEPT !.pc = "sending", !.pass = "initial",
                                  !.selected = messages,
                                  !.messages = messages]]
    /\ engineCalls' = engineCalls + 1
    /\ UNCHANGED <<now, limits, poolVars, workerVars,
                   store, runs, errText, errResult, leads,
                   contents, messageRows, providerCalls, sleeps,
                   trackerVars>>

\* update_message_status, first half: the select of send_attempts
UpdateRead(w) ==
    LET job == sendJobs[w]
    IN  /\ job.pc = "updating"
        /\ job.k <= Len(job.results)
        /\ sendJobs' = [sendJobs EXCEPT ![w] =
              [job EXCEPT
                  !.pc = "writing",
                  !.current_attempts =
                      messageRows[job.results[job.k].message_id]
                          .send_attempts]]
        /\ UNCHANGED <<now, limits, poolVars, workerVars,
                       store, runs, errText, errResult, leads,
                       contents, messageRows, providerCalls, sleeps,
                       engineCalls, trackerVars>>

\* A faulty variant of StatusFor: every result entry is recorded as sent.
StatusForSent(pass, result) == "sent"

\* the status the handler records for a result entry
StatusFor(pass, result) ==
    IF result.sendgrid_message_id # NoId THEN "sent"
    ELSE IF pass = "initial" /\ result.is_retryable THEN "retry_pending"
    ELSE "failed"

\* A faulty variant of AfterResults: retryable failures are handed to the
\* retry coordinator after every pass.
AfterResultsAgain(pass, failed_results) ==
    IF failed_results # <<>> THEN "retry" ELSE "done"

\* where the handler goes on after its loop over the results of a pass: to
\* the retry coordinator after the first pass when some failure was
\* retryable, and to its end otherwise
AfterResults(pass, failed_results) ==
    IF pass = "initial" /\ failed_results # <<>> THEN "retry" ELSE "done"

\* update_message_status, second half: the update of the row, with the
\* bookkeeping of the handler's loop over the results around it
UpdateWrite(w) ==
    LET job == sendJobs[w]
        result == job.results[job.k]
        message_id == result.message_id
        status == StatusFor(job.pass, result)
        failed_results ==
            IF job.pass = "initial" /\ status = "retry_pending"
            THEN Append(job.failed_results, result)
            ELSE job.failed_results
        last == job.k = Len(job.results)
    IN  /\ job.pc = "writing"
        /\ messageRows' = [messageRows EXCEPT ![message_id] =
              [@ EXCEPT
                  !.status = status,
                  !.send_attempts = job.current_attempts + 1,
                  !.sendgrid_message_id =
                      IF status = "sent" THEN result.sendgrid_message_id
                      ELSE @]]
        /\ sendJobs' = [sendJobs EXCEPT ![w] =
              [job EXCEPT
                  !.failed_results = failed_results,
                  !.k = @ + 1,
                  !.pc = IF ~last THEN "updating"
                         ELSE AfterResults(job.pass, failed_results)]]
        /\ UNCHANGED <<now, limits, poolVars, workerVars,
                       store, runs, errText, errResult, leads,
                       contents, providerCalls, sleeps, engineCalls,
                       trackerVars>>

\* A faulty variant of RetryableMessageIds: every failed result is retried.
RetryableMessageIdsAll(failed_results) ==
    {failed_results[j].message_id : j \in 1 .. Len(failed_results)}

\* retryable_message_ids
RetryableMessageIds(failed_results) ==
    {failed_results[j].message_id :
        j \in {j \in 1 .. Len(failed_results) :
                  failed_results[j].is_retryable}}

\* retry_failed_messages up to its call of send_batch_emails: without a
\* retryable result it returns {retried: 0}; otherwise it sleeps 2 seconds
\* and hands the retryable messages to the engine
RetryFailedMessages(w) ==
    LET job == sendJobs[w]
        retryable_message_ids == RetryableMessageIds(job.failed_results)
        retryable_messages ==
            SelectSeq(job.selected, LAMBDA m : m \in retryable_message_ids)
        send_data ==
            [sent |-> job.sent, failed |-> job.failed,
             results |-> job.results]
    IN  /\ job.pc = "retry"
        /\ IF retryable_message_ids = {}
           THEN /\ sendJobs' = [sendJobs EXCEPT ![w] =
                      [job EXCEPT !.pc = "done", !.retried = 0]]
                /\ UNCHANGED <<sleeps, engineCalls>>
           ELSE /\ sendJobs' = [sendJobs EXCEPT ![w] =
                      [job EXCEPT
                          !.pc = IF retryable_messages = <<>> THEN "done"
                                 ELSE "sending",
                          !.pass = "retry",
                          !.send_data = send_data,
                          !.messages = retryable_messages,
                          !.i = 0, !.k = 0, !.results = <<>>,
                          !.sent = 0, !.failed = 0]]
                /\ sleeps' = Append(sleeps, 2)
                /\ engineCalls' = engineCalls + 1
        /\ UNCHANGED <<now, limits, poolVars, workerVars,
                       store, runs, errText, errResult, leads,
                       contents, messageRows, providerCalls, trackerVars>>

\* the n messages of the campaign at the start of a delivery pass
DeliveryInputs(n) ==
    /\ messageRows = [m \in 1 .. n |-> ScheduledRow]
    /\ providerCalls = <<>>
    /\ sleeps = <<>>
    /\ engineCalls = 0

\* everything but the delivery pass at rest
OnlyDelivery ==
    /\ now = ClockReading(1)
    /\ limits = [email |-> 1, linkedin |-> 1]
    /\ store = <<>>
    /\ runs = [r \in Runs |-> IdleRun]
    /\ errText = <<>>
    /\ errResult = <<>>
    /\ NoTracking
    /\ NoPool
    /\ NoWorkers

\* the keys of the message contents of a campaign
ContentIds == {1, 2}

\* one send_email job over up to MaxMessages scheduled messages
InitSend ==
    /\ OnlyDelivery
    /\ \E n \in 1 .. MaxMessages :
          /\ DeliveryInputs(n)
          /\ leads \in [1 .. n -> LeadKinds]
          /\ contents \in [1 .. n -> ContentIds]
    /\ sendJobs = [w \in Runs |-> IdleSend]

\* the worker whose job SpecSend follows
SendWorker == "w1"

NextSend ==
    \/ StartSendEmail(SendWorker)
    \/ SendChunk(SendWorker)
    \/ SendBatchFails(SendWorker)
    \/ UpdateRead(SendWorker)
    \/ UpdateWrite(SendWorker)
    \/ RetryFailedMessages(SendWorker)

SpecSend == InitSend /\ [][NextSend]_vars

---------------------------------------------------------------------------
(* The retry coordinator invoked on given failed results                   *)

\* what a failed result handed to the coordinator may be for one message:
\* nothing, a retryable failure or one of two failures that are not
FailureKinds == {"none", "rate_limit", "authentication", "invalid_email"}

FailedResult(m, kind) ==
    IF kind = "rate_limit" THEN ClassifiedEntry(m, RateLimited)
    ELSE IF kind = "authentication" THEN ClassifiedEntry(m, Unauthorized)
    ELSE ErrorEntry(m, TextLeadMissing, "invalid_email", FALSE)

\* the failed results for messages 1 .. n of the kinds given by f
FailedResults(n, f) ==
    LET failing == SelectSeq([m \in 1 .. n |-> m],
                             LAMBDA m : f[m] # "none")
    IN  [j \in 1 .. Len(failing) |->
            FailedResult(failing[j], f[failing[j]])]

\* retry_failed_messages is called with the messages of a delivery and
\* failed results for some of them
InitRetry ==
    /\ OnlyDelivery
    /\ \E n \in 1 .. MaxMessages :
          /\ DeliveryInputs(n)
          /\ leads \in [1 .. n -> LeadKinds]
          /\ contents \in [1 .. n -> ContentIds]
          /\ \E f \in [1 .. n -> FailureKinds] :
                sendJobs = [w \in Runs |->
                    IF w = SendWorker
                    THEN [IdleSend EXCEPT
                             !.pc = "retry",
                             !.selected = [m \in 1 .. n |-> m],
                             !.failed_results = FailedResults(n, f)]
                    ELSE IdleSend]

NextRetry ==
    \/ RetryFailedMessages(SendWorker)
    \/ SendChunk(SendWorker)

SpecRetry == InitRetry /\ [][NextRetry]_vars

\* C11 -- Idempotent retry: when none of the failed results handed to the
\* retry coordinator is flagged retryable, the coordinator returns
\* {retried: 0} and there has been no provider call, no backoff sleep and
\* no invocation of the batch delivery engine.
C11_IdempotentRetry ==
    LET job == sendJobs[SendWorker]
    IN  (\A j \in 1 .. Len(job.failed_results) :
            ~job.failed_results[j].is_retryable)
        => /\ job.pc \in {"retry", "done"}
           /\ job.pc = "done" => job.retried = 0
           /\ providerCalls = <<>>
           /\ sleeps = <<>>
           /\ engineCalls = 0

\* the coordinator has returned {retried: 0} for failed results that are
\* all not retryable
C11_Witness ==
    LET job == sendJobs[SendWorker]
    IN  /\ job.pc = "done"
        /\ job.retried = 0
        /\ Len(job.failed_results) = 2
        /\ providerCalls = <<>>

---------------------------------------------------------------------------
(* The retry pass of a send_email job                                      *)

SeqSet(q) == {q[j] : j \in 1 .. Len(q)}

\* how often message m has been handed to the provider
Submissions(m) ==
    Cardinality({j \in 1 .. Len(providerCalls) : m \in SeqSet(providerCalls[j])})

\* the results of the first pass of a job
FirstPassResults(job) ==
    IF job.pass = "retry" THEN job.send_data.results ELSE job.results

\* C12 -- Single retry pass: within one send_email job the batch delivery
\* engine is invoked at most twice, the second time by the retry
\* coordinator after one backoff sleep and on exactly the messages whose
\* first-pass result is flagged retryable; a message that succeeded or
\* failed non-retryably in the first pass is not handed to the provider
\* again, and no message is handed to the provider more than twice.
C12_SingleRetryPass ==
    LET job == sendJobs[SendWorker]
        first == FirstPassResults(job)
        retryable == {first[j].message_id :
                         j \in {j \in 1 .. Len(first) :
                                   first[j].is_retryable}}
    IN  /\ engineCalls <= 2
        /\ Cardinality({j \in 1 .. Len(sleeps) : sleeps[j] = 2}) <= 1
        /\ \A m \in MessageIds : Submissions(m) <= 2
        /\ job.pass = "retry" =>
              /\ engineCalls = 2
              /\ SeqSet(job.messages) = retryable
              /\ Len(job.messages) = Cardinality(retryable)
              /\ \A m \in SeqSet(job.selected) \ retryable :
                    Submissions(m) <= 1
        /\ job.pass # "retry" => engineCalls <= 1

\* a job is over after a retry pass in which one message was handed to the
\* provider a second time while another, sent in the first pass, was not
C12_Witness ==
    LET job == sendJobs[SendWorker]
    IN  /\ job.pc = "done"
        /\ job.pass = "retry"
        /\ \E m \in MessageIds : Submissions(m) = 2
        /\ \E m \in MessageIds :
              /\ Submissions(m) = 1
              /\ messageRows[m].status = "sent"
              /\ m \notin SeqSet(job.messages)

---------------------------------------------------------------------------
(* The batch delivery engine on long message lists                         *)

\* send_batch_emails is called with n messages whose leads all have an
\* address; the messages alternate between two contents
InitChunk ==
    /\ OnlyDelivery
    /\ \E n \in 1 .. MaxChunkMessages :
          /\ DeliveryInputs(n)
          /\ leads = [m \in 1 .. n |-> "ok"]
          /\ contents = [m \in 1 .. n |-> 1 + (m % 2)]
          /\ sendJobs = [w \in Runs |->
                IF w = SendWorker
                THEN [IdleSend EXCEPT !.pc = "sending", !.pass = "initial",
                                      !.selected = [m \in 1 .. n |-> m],
                                      !.messages = [m \in 1 .. n |-> m]]
                ELSE IdleSend]

NextChunk == SendChunk(SendWorker)

SpecChunk == InitChunk /\ [][NextChunk]_vars

\* ceil(n / BATCH_SIZE)
CeilChunks(n) == (n + BATCH_SIZE - 1) \div BATCH_SIZE

\* every provider call so far was accepted
AllAccepted(job) ==
    \A j \in 1 .. Len(job.results) : job.results[j].status_code # None

\* C13 -- Chunking: a delivery of n > 0 messages is processed as
\* ceil(n/100) sequential chunks of at most 100 messages in input order with
\* ceil(n/100) - 1 one-second delays between them and none after the
\* last; when every message reaches the provider and the provider accepts
\* every call, the summary has sent = n and failed = 0.
C13_Chunking ==
    LET job == sendJobs[SendWorker]
        n == Len(job.messages)
        done == job.i \div BATCH_SIZE
    IN  /\ job.i % BATCH_SIZE = 0
        /\ done <= CeilChunks(n)
        /\ Len(job.results) = Min(job.i, n)
        /\ \A c \in 1 .. Len(providerCalls) :
              Len(providerCalls[c]) <= BATCH_SIZE
        /\ \A j \in 1 .. Len(job.results) :
              (job.results[j].message_id - 1) \div BATCH_SIZE
                 = (j - 1) \div BATCH_SIZE
        /\ job.pc = "sending" =>
              /\ done < CeilChunks(n)
              /\ sleeps = [j \in 1 .. done |-> 1]
        /\ job.pc = "updating" =>
              /\ done = CeilChunks(n)
              /\ sleeps = [j \in 1 .. CeilChunks(n) - 1 |-> 1]
              /\ AllAccepted(job) => job.sent = n /\ job.failed = 0

\* 150 messages were delivered in two chunks with one delay, all accepted
C13_Witness ==
    LET job == sendJobs[SendWorker]
    IN  /\ Len(job.messages) = 150
        /\ job.pc = "updating"
        /\ job.i = 2 * BATCH_SIZE
        /\ sleeps = <<1>>
        /\ job.sent = 150
        /\ job.failed = 0

\* the chunk a message of the engine's list belongs to
ChunkOf(m) == (m - 1) \div BATCH_SIZE

\* the content groups of the first c chunks of n messages
RECURSIVE GroupsUpTo(_, _)
GroupsUpTo(c, n) ==
    IF c = 0 THEN 0
    ELSE GroupsUpTo(c - 1, n)
         + Cardinality({contents[m] :
               m \in ((c - 1) * BATCH_SIZE + 1) .. Min(c * BATCH_SIZE, n)})

\* what a result entry says besides the message it is about
Outcome(r) ==
    <<r.sendgrid_message_id, r.status_code, r.error, r.error_category,
      r.is_retryable>>

---------------------------------------------------------------------------
(* The result summary of the engine                                        *)

\* the engine has returned the summary of the pass to the handler
Returned(job) == job.pc \in {"updating", "writing"}

\* the entries of a summary about message m
EntriesOf(results, m) ==
    {j \in 1 .. Len(results) : results[j].message_id = m}

\* an entry carries a provider identifier, or an error and its classification
WellFormed(r) ==
    \/ r.sendgrid_message_id # NoId
    \/ r.error # NoText /\ r.error_category # ""

\* C14 -- Result conservation: the summary the engine returns has exactly
\* one entry per input message, each entry carries a provider identifier
\* or an error with its classification, and sent + failed is the number
\* of input messages.
C14_ResultConservation ==
    LET job == sendJobs[SendWorker]
    IN  Returned(job) =>
           /\ Len(job.results) = Len(job.messages)
           /\ \A m \in SeqSet(job.messages) :
                 Cardinality(EntriesOf(job.results, m)) = 1
           /\ job.sent + job.failed = Len(job.messages)
           /\ \A j \in 1 .. Len(job.results) : WellFormed(job.results[j])

\* C15 -- A message whose lead is missing or has no usable address gets a
\* failed entry with category invalid_email that is not retryable, is in
\* no provider call, ends with status failed, and the messages of the
\* chunk whose lead has an address are handed to the provider all the same.
C15_MissingLead ==
    LET job == sendJobs[SendWorker]
    IN  /\ \A m \in MessageIds :
              GetLeadDataSync(m) = "missing" =>
                 /\ Submissions(m) = 0
                 /\ messageRows[m].status \in {"scheduled", "failed"}
                 /\ \A j \in EntriesOf(job.results, m) :
                       /\ job.results[j].error = TextLeadMissing
                       /\ job.results[j].error_category = "invalid_email"
                       /\ ~job.results[j].is_retryable
                       /\ job.results[j].sendgrid_message_id = NoId
        /\ Returned(job) =>
              \A m \in SeqSet(job.messages) :
                 /\ EntriesOf(job.results, m) # {}
                 /\ GetLeadDataSync(m) = "ok" => Submissions(m) >= 1
        /\ job.pc = "done" =>
              \A m \in SeqSet(job.selected) :
                 GetLeadDataSync(m) = "missing"
                    => /\ messageRows[m].status = "failed"
                       /\ m \notin SeqSet(job.messages) \/ job.pass = "initial"

\* a job is over in which one message had no usable lead and was recorded
\* as failed while the other message of the chunk was sent
C15_Witness ==
    LET job == sendJobs[SendWorker]
    IN  /\ job.pc = "done"
        /\ \E m \in MessageIds :
              /\ GetLeadDataSync(m) = "missing"
              /\ messageRows[m].status = "failed"
              /\ messageRows[m].send_attempts = 1
        /\ \E m \in MessageIds :
              /\ GetLeadDataSync(m) = "ok"
              /\ messageRows[m].status = "sent"

---------------------------------------------------------------------------
(* Two send_email jobs over the same messages                              *)

\* two workers have picked send_email jobs that name the same scheduled
\* messages
InitAttempts ==
    /\ OnlyDelivery
    /\ \E n \in 1 .. MaxRaceMessages :
          /\ DeliveryInputs(n)
          /\ leads = [m \in 1 .. n |-> "ok"]
          /\ contents = [m \in 1 .. n |-> 1]
    /\ sendJobs = [w \in Runs |-> IdleSend]

NextAttempts ==
    \/ \E w \in Runs : StartSendEmail(w)
    \/ \E w \in Runs : SendChunk(w)
    \/ \E w \in Runs : SendBatchFails(w)
    \/ \E w \in Runs : UpdateRead(w)
    \/ \E w \in Runs : UpdateWrite(w)
    \/ \E w \in Runs : RetryFailedMessages(w)

SpecAttempts == InitAttempts /\ [][NextAttempts]_vars

\* C17 -- send_attempts of a message never decreases, whatever the
\* interleaving of the status updates of different send_email jobs, and a
\* status update raises it by exactly one.
C17_AttemptsMonotonic ==
    [][\A m \in MessageIds :
          \/ messageRows'[m].send_attempts = messageRows[m].send_attempts
          \/ messageRows'[m].send_attempts
                = messageRows[m].send_attempts + 1]_vars

---------------------------------------------------------------------------
(* The delivery event tracker (routers/webhooks.py)                        *)

\* the event types of the provider; spam_report has no campaign counter
EventTypes ==
    {"processed", "delivered", "open", "click", "bounce", "unsubscribe",
     "spam_report"}

\* the campaign of the model
CampaignId == "c1"

\* the message id of an event that names no message
NoMessage == 0

\* a callback event: its type, and the message_id and campaign_id found at
\* its root or in its custom args (NoMessage / "" when in neither)
Events ==
    [event : EventTypes, message_id : {1}, campaign_id : {CampaignId, ""}]
    \cup [event : {"delivered"}, message_id : {NoMessage, 2},
          campaign_id : {CampaignId}]

\* tracking_event: the normalized record of an event; sg_event_id tells
\* the events of a behaviour apart
TrackingEvent(event, sg_event_id) ==
    [event |-> event.event, sg_event_id |-> sg_event_id]

\* the timestamp fields update_data holds for an event type besides
\* updated_at
TimestampFields(event_type) ==
    CASE event_type = "delivered" -> {"delivered_at"}
      [] event_type = "open" -> {"opened_at"}
      [] event_type = "click" -> {"clicked_at"}
      [] event_type = "bounce" -> {"bounced_at"}
      [] event_type = "unsubscribe" -> {"unsubscribed_at"}
      [] OTHER -> {}

\* A faulty variant of StatusUpdate: an open event sets status opened.
StatusUpdateOpened(status, event_type) ==
    IF event_type = "delivered" THEN "delivered"
    ELSE IF event_type = "open" THEN "opened"
    ELSE IF event_type = "bounce" THEN "bounced"
    ELSE IF event_type = "unsubscribe" THEN "unsubscribed"
    ELSE status

\* update_data['status'] for an event type, the stored status when the
\* update has no status
StatusUpdate(status, event_type) ==
    IF event_type = "delivered" THEN "delivered"
    ELSE IF event_type = "bounce" THEN "bounced"
    ELSE IF event_type = "unsubscribe" THEN "unsubscribed"
    ELSE status

\* metric_map; "" for an event type without counter
MetricKey(event_type) ==
    CASE event_type = "processed" -> "sent"
      [] event_type = "delivered" -> "delivered"
      [] event_type = "open" -> "opened"
      [] event_type = "click" -> "clicked"
      [] event_type = "bounce" -> "bounced"
      [] event_type = "unsubscribe" -> "unsubscribed"
      [] OTHER -> ""

\* the counters of email_metrics
Counters ==
    {"sent", "delivered", "opened", "clicked", "bounced", "unsubscribed"}

\* round((a / b) * 100, 2), in hundredths of a percent
Rate(a, b) == (2 * 10000 * a + b) \div (2 * b)

\* email_metrics of a campaign without events
ZeroMetrics ==
    [sent |-> 0, delivered |-> 0, opened |-> 0, clicked |-> 0,
     bounced |-> 0, unsubscribed |-> 0, open_rate |-> 0, click_rate |-> 0]

\* A faulty variant of IncrementMetric: every event counts as delivered.
IncrementDelivered(current_metrics, event_type) ==
    [current_metrics EXCEPT !.delivered = @ + 1]

\* update_campaign_metrics: the metrics written back for an event type
IncrementMetric(current_metrics, event_type) ==
    LET metric_key == MetricKey(event_type)
        counted == IF metric_key = "" THEN current_metrics
                   ELSE [current_metrics EXCEPT ![metric_key] = @ + 1]
    IN  IF metric_key # "" /\ counted.delivered > 0
        THEN [counted EXCEPT
                 !.open_rate = Rate(counted.opened, counted.delivered),
                 !.click_rate = Rate(counted.clicked, counted.delivered)]
        ELSE counted

\* the request slots of the webhook endpoint
HookSlots == {"h1", "h2"}

\* the events of the requests being handled
RECURSIVE Pending(_)
Pending(S) ==
    IF S = {} THEN 0
    ELSE LET h == CHOOSE x \in S : TRUE
         IN  Len(hooks[h].batch) + Pending(S \ {h})

\* the events of the requests answered so far
RECURSIVE Answered(_)
Answered(j) == IF j = 0 THEN 0 ELSE answered[j].events + Answered(j - 1)

\* the request bodies with one event, by length
SingleEvents == [n \in {1} |-> {<<event>> : event \in Events}]

\* the request bodies with up to MaxBatchEvents events, by length
EventBatches ==
    [n \in 1 .. MaxBatchEvents |->
        {batch \in SeqsUpTo(Events, MaxBatchEvents) : Len(batch) = n}]

\* handle_sendgrid_webhook up to its loop: a request with one of the
\* given batches of events arrives; when get_supabase raises, the request
\* is answered 200 at once and none of its events is processed
HookReceive(h, max_events, batches) ==
    /\ hooks[h].pc = "idle"
    /\ \E n \in DOMAIN batches :
          /\ Answered(Len(answered)) + Pending(HookSlots) + n <= max_events
          /\ \E batch \in batches[n], connected \in BOOLEAN :
                IF connected
                THEN /\ hooks' = [hooks EXCEPT ![h] =
                           [IdleHook EXCEPT !.pc = "loop", !.batch = batch]]
                     /\ answered' = answered
                ELSE /\ hooks' = hooks
                     /\ answered' = Append(answered,
                           [status_code |-> 200, looped |-> FALSE,
                            events |-> n, processed_count |-> 0,
                            error_count |-> 0])
    /\ UNCHANGED <<now, limits, poolVars, workerVars,
                   store, runs, errText, errResult,
                   deliveryVars, metrics, received>>

\* A faulty variant of EventDone: an event that raises ends the loop.
EventDoneAbort(hook, ok) ==
    [IdleHook EXCEPT
        !.pc = "loop", !.batch = hook.batch,
        !.idx = IF ok THEN hook.idx + 1 ELSE Len(hook.batch),
        !.processed_count = hook.processed_count + (IF ok THEN 1 ELSE 0),
        !.error_count = hook.error_count + (IF ok THEN 0 ELSE 1)]

\* the loop of handle_sendgrid_webhook after process_sendgrid_event has
\* returned (ok) or raised: the event is counted and the loop goes on
EventDone(hook, ok) ==
    [IdleHook EXCEPT
        !.pc = "loop", !.batch = hook.batch, !.idx = hook.idx + 1,
        !.processed_count = hook.processed_count + (IF ok THEN 1 ELSE 0),
        !.error_count = hook.error_count + (IF ok THEN 0 ELSE 1)]

\* A faulty variant of AfterSelect: an event whose message is not found
\* still reaches the campaign metrics.
AfterSelectMetrics(event, found) ==
    IF found THEN "update"
    ELSE IF event.campaign_id # "" THEN "metrics_select"
    ELSE "loop"

\* where process_sendgrid_event goes on after the select of the message:
\* to the update of the record, or back to the caller when the event names
\* no stored message
AfterSelect(event, found) == IF found THEN "update" ELSE "loop"

\* process_sendgrid_event up to the select of the message: an event
\* without message_id is dropped; for an event naming no stored message
\* the select returns no data and the event is dropped, or the select
\* raises and the loop of the endpoint counts an error
HookSelect(h) ==
    LET hook == hooks[h]
        event == hook.batch[hook.idx + 1]
        found == /\ event.message_id # NoMessage
                 /\ event.message_id \in MessageIds
        next == AfterSelect(event, found)
    IN  /\ hook.pc = "loop"
        /\ hook.idx < Len(hook.batch)
        /\ received' = Append(received, event)
        /\ \E raises \in IF found \/ event.message_id = NoMessage
                         THEN {FALSE} ELSE BOOLEAN :
              hooks' = [hooks EXCEPT ![h] =
                 IF next = "loop" THEN EventDone(hook, ~raises)
                 ELSE [hook EXCEPT
                          !.pc = next,
                          !.event = <<event, Len(received) + 1>>,
                          !.current_events =
                              IF found
                              THEN messageRows[event.message_id]
                                       .tracking_events
                              ELSE <<>>]]
        /\ UNCHANGED <<now, limits, poolVars, workerVars,
                       store, runs, errText, errResult,
                       deliveryVars, metrics, answered>>

\* process_sendgrid_event: the update of the message record
HookUpdate(h) ==
    LET hook == hooks[h]
        event == hook.event[1]
        tracking_event == TrackingEvent(event, hook.event[2])
    IN  /\ hook.pc = "update"
        /\ messageRows' = [messageRows EXCEPT ![event.message_id] =
              [@ EXCEPT
                  !.tracking_events =
                      Append(hook.current_events, tracking_event),
                  !.status = StatusUpdate(@, event.event),
                  !.timestamps = @ \cup TimestampFields(event.event)]]
        /\ hooks' = [hooks EXCEPT ![h] =
              IF event.campaign_id # ""
              THEN [hook EXCEPT !.pc = "metrics_select"]
              ELSE EventDone(hook, TRUE)]
        /\ UNCHANGED <<now, limits, poolVars, workerVars,
                       store, runs, errText, errResult, leads,
                       contents, sendJobs, providerCalls, sleeps,
                       engineCalls, metrics, received, answered>>

\* update_campaign_metrics: the select of email_metrics
MetricsSelect(h) ==
    /\ hooks[h].pc = "metrics_select"
    /\ hooks' = [hooks EXCEPT ![h] =
          [@ EXCEPT !.pc = "metrics_update", !.current_metrics = metrics]]
    /\ UNCHANGED <<now, limits, poolVars, workerVars,
                   store, runs, errText, errResult,
                   deliveryVars, metrics, received, answered>>

\* update_campaign_metrics: the update of email_metrics
MetricsUpdate(h) ==
    /\ hooks[h].pc = "metrics_update"
    /\ metrics' = IncrementMetric(hooks[h].current_metrics,
                                  hooks[h].event[1].event)
    /\ hooks' = [hooks EXCEPT ![h] = EventDone(hooks[h], TRUE)]
    /\ UNCHANGED <<now, limits, poolVars, workerVars,
                   store, runs, errText, errResult,
                   deliveryVars, received, answered>>

\* handle_sendgrid_webhook after its loop: the request is answered 200
HookRespond(h) ==
    LET hook == hooks[h]
    IN  /\ hook.pc = "loop"
        /\ hook.idx = Len(hook.batch)
        /\ answered' = Append(answered,
              [status_code |-> 200, looped |-> TRUE,
               events |-> Len(hook.batch),
               processed_count |-> hook.processed_count,
               error_count |-> hook.error_count])
        /\ hooks' = [hooks EXCEPT ![h] = IdleHook]
        /\ UNCHANGED <<now, limits, poolVars, workerVars,
                       store, runs, errText, errResult,
                       deliveryVars, metrics, received>>

\* one sent message of the campaign and no event received yet
InitTrack ==
    /\ now = ClockReading(1)
    /\ limits = [email |-> 1, linkedin |-> 1]
    /\ store = <<>>
    /\ runs = [r \in Runs |-> IdleRun]
    /\ errText = <<>>
    /\ errResult = <<>>
    /\ leads = <<"ok">>
    /\ contents = <<1>>
    /\ messageRows =
          <<[ScheduledRow EXCEPT !.status = "sent", !.send_attempts = 1,
                                 !.sendgrid_message_id = "sg-id"]>>
    /\ sendJobs = [w \in Runs |-> IdleSend]
    /\ providerCalls = <<<<1>>>>
    /\ sleeps = <<>>
    /\ engineCalls = 1
    /\ metrics = ZeroMetrics
    /\ hooks = [h \in HookSlots |-> IdleHook]
    /\ received = <<>>
    /\ answered = <<>>
    /\ NoPool
    /\ NoWorkers

\* no event is being processed
NoHookRunning == \A h \in HookSlots : hooks[h].pc = "idle"

\* events are processed one after another
NextTrackSeq ==
    \/ \E h \in HookSlots : NoHookRunning /\ HookReceive(h, MaxSeqEvents, SingleEvents)
    \/ \E h \in HookSlots : HookSelect(h)
    \/ \E h \in HookSlots : HookUpdate(h)
    \/ \E h \in HookSlots : MetricsSelect(h)
    \/ \E h \in HookSlots : MetricsUpdate(h)
    \/ \E h \in HookSlots : HookRespond(h)

SpecTrackSeq == InitTrack /\ [][NextTrackSeq]_vars

\* events are processed concurrently, one per request slot
NextTrack ==
    \/ \E h \in HookSlots : HookReceive(h, MaxRaceEvents, SingleEvents)
    \/ \E h \in HookSlots : HookSelect(h)
    \/ \E h \in HookSlots : HookUpdate(h)
    \/ \E h \in HookSlots : MetricsSelect(h)
    \/ \E h \in HookSlots : MetricsUpdate(h)
    \/ \E h \in HookSlots : HookRespond(h)

SpecTrack == InitTrack /\ [][NextTrack]_vars

\* requests with batches of several events, handled one after another
NextBatch ==
    \/ \E h \in HookSlots :
          NoHookRunning /\ HookReceive(h, MaxBatchEvents, EventBatches)
    \/ \E h \in HookSlots : HookSelect(h)
    \/ \E h \in HookSlots : HookUpdate(h)
    \/ \E h \in HookSlots : MetricsSelect(h)
    \/ \E h \in HookSlots : MetricsUpdate(h)
    \/ \E h \in HookSlots : HookRespond(h)

SpecBatch == InitTrack /\ [][NextBatch]_vars

\* the events received so far that name stored message m
EventsOf(m) == SelectSeq(received, LAMBDA e : e.message_id = m)

\* how many events of q have the campaign counter key
Counted(q, key) ==
    Cardinality({j \in 1 .. Len(q) : MetricKey(q[j].event) = key})

\* the event types of the tracking log of message m
LoggedTypes(m) ==
    [j \in 1 .. Len(messageRows[m].tracking_events) |->
        messageRows[m].tracking_events[j].event]

\* the status of message m follows its last event that carries one
StatusFollowsLog(m) ==
    LET q == EventsOf(m)
    IN  q # <<>> =>
           /\ q[Len(q)].event = "bounce"
                 => messageRows[m].status = "bounced"
           /\ q[Len(q)].event = "delivered"
                 => messageRows[m].status = "delivered"
           /\ q[Len(q)].event = "unsubscribe"
                 => messageRows[m].status = "unsubscribed"

CampaignEventsOf(m) ==
    SelectSeq(EventsOf(m), LAMBDA e : e.campaign_id # "")

IsPrefix(p, q) == Len(p) <= Len(q) /\ SubSeq(q, 1, Len(p)) = p

\* C19 -- tracking_events is append-only: after every step, also of events
\* for the same message processed concurrently, the stored log has the
\* previously stored log as a prefix.
C19_AppendOnly ==
    [][\A m \in MessageIds :
          IsPrefix(messageRows[m].tracking_events,
                   messageRows'[m].tracking_events)]_vars

\* C20 -- bounced and unsubscribed are terminal: once the status of a
\* message is bounced or unsubscribed no later step changes it.
C20_TerminalStatus ==
    [][\A m \in MessageIds :
          messageRows[m].status \in {"bounced", "unsubscribed"}
             => messageRows'[m].status = messageRows[m].status]_vars

\* the events received so far that led to an update of the campaign
\* metrics: those of a stored message that carry the campaign id
MetricEvents ==
    SelectSeq(received, LAMBDA e : /\ e.message_id \in MessageIds
                                   /\ e.campaign_id # "")

\* C21 -- The campaign counters are incremented atomically: when the
\* events processed concurrently have all completed, each counter has
\* grown by exactly the number of events of its type.
C21_AtomicCounters ==
    NoHookRunning =>
       \A key \in Counters : metrics[key] = Counted(MetricEvents, key)


\* the event names a stored message
Resolvable(event) ==
    /\ event.message_id # NoMessage
    /\ event.message_id \in MessageIds

\* the step of slot h that takes an event naming no stored message leaves
\* the message records, the campaign counters and the answers alone, and
\* the loop of the request goes on with the next event
DropsUnresolvable(h) ==
    LET hook == hooks[h]
    IN  (/\ hook.pc = "loop"
         /\ hook.idx < Len(hook.batch)
         /\ ~Resolvable(hook.batch[hook.idx + 1])
         /\ hooks'[h] # hook)
        => /\ messageRows' = messageRows
           /\ metrics' = metrics
           /\ answered' = answered
           /\ hooks'[h].pc = "loop"
           /\ hooks'[h].idx = hook.idx + 1

\* only an event naming a stored message is carried past the select
OnlyResolvableGoOn ==
    \A h \in HookSlots :
       hooks[h].pc \in {"update", "metrics_select", "metrics_update"}
          => Resolvable(hooks[h].event[1])

\* C22 -- a callback event with no message_id, or naming no stored
\* message, is dropped: it changes no message record and no campaign
\* counter, it is never carried to the update of a record or of the
\* counters, and every request is answered with status 200.
C22_UnresolvableDropped ==
    /\ [](OnlyResolvableGoOn
          /\ \A j \in 1 .. Len(answered) : answered[j].status_code = 200)
    /\ [][\A h \in HookSlots : DropsUnresolvable(h)]_vars

\* one request with an event without message_id and an event naming an
\* unknown message has been answered: both were dropped, nothing changed
C22_Witness ==
    /\ NoHookRunning
    /\ Len(received) = 2
    /\ received[1].message_id = NoMessage
    /\ received[2].message_id = 2
    /\ Len(answered) = 1
    /\ answered[1].status_code = 200
    /\ answered[1].looped
    /\ answered[1].events = 2
    /\ messageRows[1].tracking_events = <<>>
    /\ metrics = ZeroMetrics

\* the events of the request of slot h processed so far are the last
\* entries of the log of processed events, in the order of the batch
InBatchOrder(h) ==
    LET hook == hooks[h]
        done == IF hook.pc = "loop" THEN hook.idx ELSE hook.idx + 1
    IN  hook.pc # "idle" =>
           /\ done <= Len(received)
           /\ SubSeq(received, Len(received) - done + 1, Len(received))
                 = SubSeq(hook.batch, 1, done)

\* C23 -- the endpoint answers every request with status 200, whether
\* its events were processed, dropped or raised; a request that reached
\* the loop has had every event of its batch processed or counted as an
\* error, so an event that raises does not stop the events after it, and
\* the events of a batch are processed in the order of the batch.
C23_AlwaysAcknowledged ==
    /\ \A j \in 1 .. Len(answered) :
          /\ answered[j].status_code = 200
          /\ answered[j].looped =>
                answered[j].processed_count + answered[j].error_count
                   = answered[j].events
    /\ \A h \in HookSlots : InBatchOrder(h)

\* a request of two events has been answered: the first event raised, the
\* second was processed after it and is in the log of the message
C23_Witness ==
    /\ NoHookRunning
    /\ Len(answered) = 1
    /\ answered[1] = [status_code |-> 200, looped |-> TRUE, events |-> 2,
                      processed_count |-> 1, error_count |-> 1]
    /\ Len(received) = 2
    /\ received[1].message_id = 2
    /\ received[2].message_id = 1
    /\ Len(messageRows[1].tracking_events) = 1

\* the status changes the claim allows to a send_email job
SendDueTransitions ==
    {<<"scheduled", "sent">>, <<"scheduled", "failed">>,
     <<"scheduled", "retry_pending">>, <<"retry_pending", "sent">>,
     <<"retry_pending", "failed">>}

\* the status the claim requires for a result entry of the first pass: sent
\* for an entry the engine reports as accepted, retry_pending for a failure
\* flagged retryable, failed for any other failure
FirstPassStatus(result) ==
    IF result.status_code = 202 THEN "sent"
    ELSE IF result.is_retryable THEN "retry_pending"
    ELSE "failed"

\* the step of the handler that persists the status of a result entry of
\* the first pass persists the status required for the entry, with the
\* provider identifier when it is sent
PersistsFirstPass(w) ==
    LET job == sendJobs[w]
        result == job.results[job.k]
        m == result.message_id
    IN  (job.pc = "writing" /\ job.pass = "initial"
           /\ sendJobs'[w].k = job.k + 1)
        => /\ messageRows'[m].status = FirstPassStatus(result)
           /\ messageRows'[m].status = "sent" =>
                 /\ result.sendgrid_message_id # NoId
                 /\ messageRows'[m].sendgrid_message_id
                       = result.sendgrid_message_id

\* the step of the handler that selects the messages of the job hands
\* only messages with status scheduled to the engine
HandsOverScheduled(w) ==
    (sendJobs[w].pc = "idle" /\ sendJobs'[w].pc = "sending")
    => \A m \in SeqSet(sendJobs'[w].messages) :
          messageRows[m].status = "scheduled"

\* C24 -- after the first delivery pass the handler persists for every
\* result entry the status sent with the provider identifier for a
\* successful entry, failed for a failure flagged not retryable and
\* retry_pending for a failure flagged retryable; only scheduled messages
\* are handed to the engine; and the status of a message changes only
\* scheduled -> sent | failed | retry_pending and retry_pending -> sent |
\* failed.
C24_FirstPassStatuses ==
    [][/\ PersistsFirstPass(SendWorker)
       /\ HandsOverScheduled(SendWorker)
       /\ \A m \in MessageIds :
             messageRows'[m].status # messageRows[m].status
                => <<messageRows[m].status, messageRows'[m].status>>
                      \in SendDueTransitions]_vars

\* C25 -- a retryable failure gets one retry pass and is then terminal:
\* when the send_email handler has returned, whatever the provider and the
\* retry pass did, the retry invocation failing included, every message
\* the handler handed to the engine has status sent or failed.
C25_TerminalAfterReturn ==
    LET job == sendJobs[SendWorker]
    IN  job.pc = "done" =>
           \A m \in SeqSet(job.selected) :
              messageRows[m].status \in {"sent", "failed"}

\* the step of run r that materializes its accepted steps
Materializes(r) == runs[r].pc = "scheduled" /\ runs'[r].pc = "idle"

\* the messages table has gained one row per accepted step of the run, each
\* with status scheduled and the send_at resolved for the step
AllPersisted(scheduled_messages) ==
    /\ Len(store') = Len(store) + Len(scheduled_messages)
    /\ \A i \in 1 .. Len(scheduled_messages) :
          LET row == store'[Len(store) + i]
          IN  /\ row.status = "scheduled"
              /\ row.send_at = scheduled_messages[i].send_at
              /\ row.channel = scheduled_messages[i].channel

\* C26 -- materialization is all-or-nothing for a run: its accepted steps
\* are written in one batch as messages with status scheduled and send_at
\* equal to the resolved slot; when the write fails no message of the run
\* is persisted and the handler raises one failure; the rows already in
\* the messages table and the other runs are left as they were.
C26_AllOrNothing ==
    [][\A r \in Runs :
          Materializes(r) =>
             /\ \/ ~runs'[r].raised
                      /\ AllPersisted(runs[r].scheduled_messages)
                \/ runs'[r].raised
                      /\ runs[r].scheduled_messages # <<>>
                      /\ Len(store') = Len(store)
             /\ SubSeq(store', 1, Len(store)) = store
             /\ \A q \in Runs \ {r} : runs'[q] = runs[q]]_vars

\* a run has raised on a failed write while the messages table holds the
\* message of an earlier run, and nothing else
C26_Witness ==
    /\ runs["w1"].raised
    /\ runs["w1"].pc = "idle"
    /\ runs["w2"].pc = "idle"
    /\ ~runs["w2"].raised
    /\ Len(store) = 1
    /\ store[1].status = "scheduled"

\* the timestamps on date d that are legal for one more message of the
\* channel: the date has capacity left, the timestamp is inside the
\* business window of the date, clamped to one minute from now on the
\* current date, and it is at least MIN_GAP_MINUTES from every timestamp
\* used on the date
LegalOn(d, channel, daily_limit, schedule_state, t) ==
    LET channel_schedule == GetChannel(GetDate(schedule_state, d), channel)
        start0 == Localize(d, BUSINESS_START_HOUR)
        end_time == Localize(d, BUSINESS_END_HOUR)
        start_time == IF d = LocalDate(t) /\ t > start0 THEN t + 1 ELSE start0
    IN  IF channel_schedule.count >= daily_limit THEN {}
        ELSE {x \in start_time .. end_time - 1 :
                \A j \in 1 .. Len(channel_schedule.times) :
                   Distance(x, channel_schedule.times[j]) >= MIN_GAP_MINUTES}

\* the least legal timestamp on the dates target_date .. target_date + 13,
\* or None when there is none
EarliestLegal(target_date, channel, daily_limit, schedule_state, t) ==
    LET dates == {d \in target_date .. target_date + max_days_ahead - 1 :
                     LegalOn(d, channel, daily_limit, schedule_state, t) # {}}
    IN  IF dates = {} THEN None
        ELSE LET d == CHOOSE d \in dates : \A e \in dates : d <= e
                 legal == LegalOn(d, channel, daily_limit, schedule_state, t)
             IN  CHOOSE x \in legal : \A y \in legal : x <= y

\* the step of run r that examines one step of its sequences takes the
\* earliest legal timestamp, and skips the step only when there is none
TakesEarliest(r) ==
    LET run == runs[r]
        message == run.sequences[run.idx + 1]
        channel_limit == GetLimit(run.daily_limits, message.channel)
        earliest == EarliestLegal(TargetDate(now, message.day_delay),
                                  message.channel, channel_limit,
                                  run.schedule_state, now)
        scheduled == runs'[r].scheduled_messages
    IN  (run.pc = "loaded" /\ runs'[r].idx = run.idx + 1)
        => IF earliest = None
           THEN scheduled = run.scheduled_messages
           ELSE /\ Len(scheduled) = Len(run.scheduled_messages) + 1
                /\ scheduled[Len(scheduled)].send_at = earliest

\* C27 -- the slot finder returns the earliest legal send_at: for every
\* occupancy map and every step the timestamp it returns is the least
\* timestamp on the dates target_date .. target_date + 13 whose date has
\* capacity left, that is inside the business window of its date after
\* the same-day clamp and at least 5 minutes from every timestamp used on
\* that date; the step is skipped only when no such timestamp exists.
C27_EarliestLegal == [][\A r \in Runs : TakesEarliest(r)]_vars

\* the taxonomy as a table of six categories: the rows with triggers, in
\* table order; a text that matches no row is unknown
TaxonomyTable ==
  <<
     [category |-> "rate_limit",
      patterns |-> <<
           <<"4", "2", "9">>,
           <<"r", "a", "t", "e", " ", "l", "i", "m", "i", "t">>,
           <<"t", "o", "o", " ", "m", "a", "n", "y">>>>],
     [category |-> "authentication",
      patterns |-> <<
           <<"4", "0", "1">>,
           <<"4", "0", "3">>,
           <<"u", "n", "a", "u", "t", "h", "o", "r", "i", "z", "e", "d">>,
           <<"i", "n", "v", "a", "l", "i", "d", " ", "a", "p", "i", " ", "k", "e", "y">>>>],
     [category |-> "invalid_email",
      patterns |-> <<
           <<"5", "5", "0">>,
           <<"i", "n", "v", "a", "l", "i", "d", " ", "e", "m", "a", "i", "l">>,
           <<"b", "a", "d", " ", "r", "e", "c", "i", "p", "i", "e", "n", "t">>>>],
     [category |-> "temporary_error",
      patterns |-> <<
           <<"5", "0", "3">>,
           <<"5", "0", "4">>,
           <<"t", "i", "m", "e", "o", "u", "t">>>>],
     [category |-> "permanent_error",
      patterns |-> <<
           <<"5", "5", "1">>,
           <<"5", "5", "2">>,
           <<"5", "5", "3">>,
           <<"b", "o", "u", "n", "c", "e">>,
           <<"p", "e", "r", "m", "a", "n", "e", "n", "t">>>>]
  >>

\* the rows of a table one of whose triggers occurs in text
RowsMatching(table, text) ==
    {k \in 1 .. Len(table) :
        \E j \in 1 .. Len(table[k].patterns) :
            Contains(table[k].patterns[j], text)}

\* the category of the first row of a table that matches text, or unknown
FirstRow(table, text) ==
    LET rows == RowsMatching(table, text)
    IN  IF rows = {} THEN "unknown"
        ELSE table[CHOOSE k \in rows : \A j \in rows : k <= j].category

\* C28 as stated -- the classifier implements the table of six categories
\* (rate_limit, authentication, invalid_email, temporary_error,
\* permanent_error, else unknown) with first match wins in table order,
\* 'timeout' being temporary_error and 'too many' rate_limit; the result is
\* one of the six categories and is retryable exactly for rate_limit and
\* temporary_error.
C28_Original ==
    errResult # <<>> =>
       /\ errResult[1] = FirstRow(TaxonomyTable, Lower(errText))
       /\ errResult[1] \in {"rate_limit", "authentication", "invalid_email",
                            "temporary_error", "permanent_error", "unknown"}
       /\ errResult[2] <=> errResult[1] \in {"rate_limit", "temporary_error"}

\* the categories of ERROR_PATTERNS, in the order of the dict
CategoryOrder ==
    <<"rate_limit", "authentication", "invalid_email", "content_error",
      "network_error", "temporary_error", "permanent_error">>

TextTimeout == <<"t", "i", "m", "e", "o", "u", "t">>

TextTooManyRequests ==
    <<"t", "o", "o", " ", "m", "a", "n", "y", " ", "r", "e", "q", "u", "e", "s", "t", "s">>

\* C28 -- the classifier implements a taxonomy of eight categories with
\* first match wins in the order rate_limit, authentication, invalid_email,
\* content_error, network_error, temporary_error, permanent_error, else
\* unknown: the category is the first of these one of whose triggers occurs
\* case-insensitively as a substring (a text containing 'timeout' and no
\* trigger of an earlier category is network_error, one containing 'too
\* many requests' is rate_limit), the result is always one of the eight
\* categories, and it is retryable exactly for rate_limit, network_error
\* and temporary_error.
C28_Taxonomy ==
    errResult # <<>> =>
       LET text == Lower(errText)
           category == errResult[1]
           rows == RowsMatching(ERROR_PATTERNS, text)
       IN  /\ \A k \in 1 .. Len(ERROR_PATTERNS) :
                 ERROR_PATTERNS[k].category = CategoryOrder[k]
           /\ category \in {CategoryOrder[k] : k \in 1 .. 7} \cup {"unknown"}
           /\ category = "unknown" <=> rows = {}
           /\ \A k \in 1 .. 7 :
                 category = CategoryOrder[k]
                    <=> (k \in rows /\ \A j \in 1 .. k - 1 : j \notin rows)
           /\ (Contains(TextTimeout, text) /\ rows \cap (1 .. 4) = {})
                 => category = "network_error"
           /\ Contains(TextTooManyRequests, text) => category = "rate_limit"
           /\ errResult[2] <=>
                 category \in {"rate_limit", "network_error",
                               "temporary_error"}

\* "Timeout Rejected" matches network_error and content_error and has been
\* classified as content_error, the earlier of the two categories
C28_Witness ==
    /\ errText = <<"T", "i", "m", "e", "o", "u", "t", " ",
                   "R", "e", "j", "e", "c", "t", "e", "d">>
    /\ errResult = <<"content_error", FALSE>>

TextConnection == <<"c", "o", "n", "n", "e", "c", "t", "i", "o", "n">>

TextSpam == <<"s", "p", "a", "m">>

TextRejected == <<"r", "e", "j", "e", "c", "t", "e", "d">>

\* C29 -- categorize returns is_retryable = true if and only if the
\* category it returns is rate_limit, network_error or temporary_error; a
\* connection or timeout error is network_error and retryable, a spam or
\* rejected-content error is content_error and not retryable (each when no
\* category listed earlier matches), and a text that matches patterns of
\* several categories gets the one listed first in ERROR_PATTERNS.
C29_RetryableCategories ==
    errResult # <<>> =>
       LET text == Lower(errText)
           rows == RowsMatching(ERROR_PATTERNS, text)
       IN  /\ errResult[2] <=>
                 errResult[1] \in {"rate_limit", "network_error",
                                   "temporary_error"}
           /\ ((Contains(TextConnection, text) \/ Contains(TextTimeout, text))
                  /\ rows \cap (1 .. 4) = {})
                 => errResult = <<"network_error", TRUE>>
           /\ ((Contains(TextSpam, text) \/ Contains(TextRejected, text))
                  /\ rows \cap (1 .. 3) = {})
                 => errResult = <<"content_error", FALSE>>
           /\ Cardinality(rows) > 1 =>
                 errResult[1] =
                    ERROR_PATTERNS[CHOOSE k \in rows :
                                      \A j \in rows : k <= j].category

\* "Timeout" has been classified as a retryable network error
C29_Witness ==
    /\ errText = <<"T", "i", "m", "e", "o", "u", "t">>
    /\ errResult = <<"network_error", TRUE>>

\* the entry of an occupancy map for a date and a channel
EntryOf(schedule_state, d, channel) ==
    GetChannel(GetDate(schedule_state, d), channel)

\* the step of run r that accepts a slot records it in the occupancy map:
\* the entry of the date of send_at and the channel counts one more and has
\* the slot appended, and every other entry is as before
RecordsSlot(r) ==
    LET run == runs[r]
        scheduled == runs'[r].scheduled_messages
        m == scheduled[Len(scheduled)]
        d == UtcDate(m.send_at)
        old == run.schedule_state
        new == runs'[r].schedule_state
    IN  (IsStep(r) /\ Len(scheduled) = Len(run.scheduled_messages) + 1)
        => /\ EntryOf(new, d, m.channel).count
                 = EntryOf(old, d, m.channel).count + 1
           /\ EntryOf(new, d, m.channel).times
                 = Append(EntryOf(old, d, m.channel).times, m.send_at)
           /\ \A e \in DOMAIN old \cup DOMAIN new :
              \A c \in Channels \cup {OtherChannel} :
                 <<e, c>> # <<d, m.channel>>
                    => EntryOf(new, e, c) = EntryOf(old, e, c)

\* C30 -- every accepted slot is recorded in the occupancy map before the
\* next step is examined: for every channel with a positive daily limit,
\* not only email and linkedin, after a step is accepted the entry for the
\* date of send_at and the channel has its count increased by exactly one
\* and the slot appended to its timestamps, and the entries of every other
\* date and of every other channel are unchanged.
C30_SlotRecorded == [][\A r \in Runs : RecordsSlot(r)]_vars

\* today's business window is over for a step examined at instant t: the
\* start of the window, clamped to one minute from now, is not before its
\* end
WindowOver(t) ==
    LET today == LocalDate(t)
        start0 == Localize(today, BUSINESS_START_HOUR)
        start_time == IF t > start0 THEN t + 1 ELSE start0
    IN  start_time >= Localize(today, BUSINESS_END_HOUR)

\* the step of run r that examines a step on an empty occupancy map
\* schedules it on campaign-local date today + day_delay, or on the
\* following date when day_delay = 0 and today's window is over
TargetsLocalDate(r) ==
    LET run == runs[r]
        message == run.sequences[run.idx + 1]
        scheduled == runs'[r].scheduled_messages
        today == LocalDate(now)
    IN  (IsStep(r) /\ run.schedule_state = << >>
           /\ GetLimit(run.daily_limits, message.channel) > 0)
        => /\ Len(scheduled) = Len(run.scheduled_messages) + 1
           /\ LocalDate(scheduled[Len(scheduled)].send_at) =
                 IF message.day_delay = 0 /\ WindowOver(now)
                 THEN today + 1
                 ELSE today + message.day_delay

\* C31 -- the target date of a step is today in the campaign's timezone
\* plus day_delay, also at instants where the UTC calendar date differs
\* from the campaign-local date: with free capacity a step with day_delay
\* d is scheduled on campaign-local date today + d, or today + d + 1 when
\* d = 0 and today's window is over.
C31_TargetDate == [][\A r \in Runs : TargetsLocalDate(r)]_vars

\* the step of the handler of worker w that persists one result entry
\* writes the row of the message of the entry and no other, with status
\* sent exactly when the entry carries a provider identifier
WritesFromResult(w) ==
    LET job == sendJobs[w]
        result == job.results[job.k]
    IN  (job.pc = "writing" /\ sendJobs'[w].k = job.k + 1)
        => /\ \A m \in MessageIds \ {result.message_id} :
                 messageRows'[m] = messageRows[m]
           /\ messageRows'[result.message_id].status = "sent"
                 <=> result.sendgrid_message_id # NoId
           /\ messageRows'[result.message_id].status = "retry_pending"
                 => result.is_retryable

\* C32 -- the batch delivery engine and the retry coordinator never write
\* message records: while send_batch_emails or retry_failed_messages runs,
\* the status, send_attempts and provider identifier of every stored
\* message are unchanged; every change of a record is made by the job
\* handler from a returned result entry.
C32_EngineWritesNothing ==
    [][LET job == sendJobs[SendWorker]
       IN  /\ job.pc \in {"sending", "retry"} => messageRows' = messageRows
           /\ messageRows' # messageRows => job.pc = "writing"
           /\ WritesFromResult(SendWorker)]_vars

\* the engine has run twice, the second time for the retry coordinator, and
\* the handler has recorded the retried message as sent at its second
\* attempt
C32_Witness ==
    /\ sendJobs[SendWorker].pc = "done"
    /\ sendJobs[SendWorker].pass = "retry"
    /\ engineCalls = 2
    /\ messageRows[1].status = "sent"
    /\ messageRows[1].send_attempts = 2

\* the event types whose update carries a status
TerminalEventTypes == {"delivered", "bounce", "unsubscribe"}

\* the update of the message record made by request slot h changes the
\* status only for a terminal event type; for every other type it appends
\* the event to the tracking log, sets at most the timestamp field of the
\* type and leaves the rest of the record alone
UpdatesByType(h) ==
    LET hook == hooks[h]
        event == hook.event[1]
        old == messageRows[event.message_id]
        new == messageRows'[event.message_id]
    IN  (hook.pc = "update" /\ hooks'[h] # hook)
        => /\ event.event = "delivered" => new.status = "delivered"
           /\ event.event = "bounce" => new.status = "bounced"
           /\ event.event = "unsubscribe" => new.status = "unsubscribed"
           /\ event.event \notin TerminalEventTypes
                 => /\ new.status = old.status
                    /\ new.send_attempts = old.send_attempts
                    /\ new.sendgrid_message_id = old.sendgrid_message_id
                    /\ new.tracking_events =
                          Append(old.tracking_events,
                                 TrackingEvent(event, hook.event[2]))
                    /\ new.timestamps \ old.timestamps
                          \subseteq TimestampFields(event.event)
                    /\ event.event \in {"open", "click"}
                          => TimestampFields(event.event)
                                \subseteq new.timestamps

\* C33 -- only the terminal event types change message status: delivered
\* sets delivered, bounce sets bounced, unsubscribe sets unsubscribed; open,
\* click, processed and every other event type leave the status unchanged,
\* append to the tracking log and set only their timestamp field.
C33_OnlyTerminalSetStatus == [][\A h \in HookSlots : UpdatesByType(h)]_vars

\* a delivered event set the status, and the open and spam_report events
\* after it left it alone
C33_Witness ==
    /\ NoHookRunning
    /\ LoggedTypes(1) = <<"delivered", "open", "spam_report">>
    /\ messageRows[1].status = "delivered"
    /\ messageRows[1].timestamps = {"delivered_at", "opened_at"}

---------------------------------------------------------------------------
(* The provider client pool (agent/tools/email_sender.py)                  *)

MAX_POOL_SIZE == 10
POOL_TIMEOUT == 300

\* the API keys handed to _get_sendgrid_client; "" is the missing key
ApiKeys == {"", "SG.key_1", "SG.key_2"}

\* the last clock reading of the pool and the most acquisitions of a
\* behaviour
MaxPoolClock == 600
MaxAcquisitions == 4

\* the seconds that pass between two readings of the clock
ClockSteps == {100, 200}

\* dict.get(k, default)
GetOr(dict, k, default) == IF k \in DOMAIN dict THEN dict[k] ELSE default

\* dict[k] = v
Put(dict, k, v) ==
    [x \in DOMAIN dict \cup {k} |-> IF x = k THEN v ELSE dict[x]]

\* [list[i] for i in valid_indices]
RECURSIVE KeepAt(_, _)
KeepAt(list, valid_indices) ==
    IF list = <<>> THEN <<>>
    ELSE KeepAt(SubSeq(list, 1, Len(list) - 1), valid_indices)
            \o (IF Len(list) \in valid_indices
                THEN <<list[Len(list)]>> ELSE <<>>)

\* A faulty variant of ValidIndices: a client of age POOL_TIMEOUT is kept.
ValidIndicesInclusive(timestamps, current_time) ==
    {i \in DOMAIN timestamps : current_time - timestamps[i] <= POOL_TIMEOUT}

\* valid_indices: the indices of the clients that have not expired
ValidIndices(timestamps, current_time) ==
    {i \in DOMAIN timestamps : current_time - timestamps[i] < POOL_TIMEOUT}

\* A faulty variant of CleanupExpiredClients: the creation times of the
\* removed clients stay in the list.
CleanupClientsOnly(clients, timestamps, current_time) ==
    [clients |-> KeepAt(clients, ValidIndices(timestamps, current_time)),
     timestamps |-> timestamps]

\* _cleanup_expired_clients: the two lists of one API key afterwards
CleanupExpiredClients(clients, timestamps, current_time) ==
    LET valid_indices == ValidIndices(timestamps, current_time)
    IN  IF Cardinality(valid_indices) < Len(clients)
        THEN [clients |-> KeepAt(clients, valid_indices),
              timestamps |-> KeepAt(timestamps, valid_indices)]
        ELSE [clients |-> clients, timestamps |-> timestamps]

\* what one call of _get_sendgrid_client returned: its number, its key, the
\* client or NoClient, the clock reading of the call and whether
\* SendGridAPIClient(api_key) was called and raised
Acquisition(api_key, client, current_time, construction) ==
    <<[n |-> IF acquired = <<>> THEN 1 ELSE acquired[1].n + 1,
       api_key |-> api_key, client |-> client,
       current_time |-> current_time, construction |-> construction]>>

\* _get_sendgrid_client; a client is represented by the time it was
\* constructed at
GetSendgridClient(api_key, construction_fails) ==
    LET current_time == poolClock
        cleaned == CleanupExpiredClients(GetOr(api_clients, api_key, <<>>),
                                         GetOr(client_timestamps, api_key,
                                               <<>>),
                                         current_time)
        client_pool == cleaned.clients
        usage == GetOr(client_usage_count, api_key, 0)
        client == [born |-> current_time]
    IN  /\ (IF acquired = <<>> THEN 0 ELSE acquired[1].n) < MaxAcquisitions
        /\ IF api_key = ""
           THEN /\ acquired' =
                      Acquisition(api_key, NoClient, current_time, "none")
                /\ UNCHANGED <<api_clients, client_timestamps,
                               client_usage_count>>
           ELSE IF client_pool # <<>>
           THEN /\ api_clients' = Put(api_clients, api_key, client_pool)
                /\ client_timestamps' =
                      Put(client_timestamps, api_key, cleaned.timestamps)
                /\ client_usage_count' =
                      Put(client_usage_count, api_key, usage + 1)
                /\ acquired' =
                      Acquisition(api_key,
                                  client_pool[(usage % Len(client_pool)) + 1],
                                  current_time, "none")
           ELSE IF Len(client_pool) < MAX_POOL_SIZE
           THEN IF construction_fails
                THEN /\ api_clients' = Put(api_clients, api_key, client_pool)
                     /\ client_timestamps' =
                           Put(client_timestamps, api_key,
                               cleaned.timestamps)
                     /\ client_usage_count' =
                           Put(client_usage_count, api_key, usage)
                     /\ acquired' =
                           Acquisition(api_key, NoClient, current_time,
                                       "failed")
                ELSE /\ api_clients' =
                           Put(api_clients, api_key,
                               Append(client_pool, client))
                     /\ client_timestamps' =
                           Put(client_timestamps, api_key,
                               Append(cleaned.timestamps, current_time))
                     /\ client_usage_count' =
                           Put(client_usage_count, api_key, usage)
                     /\ acquired' =
                           Acquisition(api_key, client, current_time, "ok")
           ELSE /\ api_clients' = Put(api_clients, api_key, client_pool)
                /\ client_timestamps' =
                      Put(client_timestamps, api_key, cleaned.timestamps)
                /\ client_usage_count' =
                      Put(client_usage_count, api_key, usage)
                /\ acquired' =
                      Acquisition(api_key, client_pool[1], current_time,
                                  "none")
        /\ UNCHANGED <<now, limits, store, runs, errText, errResult,
                       deliveryVars, trackerVars, poolClock, workerVars>>

\* time passes between two acquisitions
PoolTick ==
    /\ \E d \in ClockSteps :
          /\ poolClock + d <= MaxPoolClock
          /\ poolClock' = poolClock + d
    /\ UNCHANGED <<now, limits, store, runs, errText, errResult,
                   deliveryVars, trackerVars, api_clients,
                   client_timestamps, client_usage_count, acquired,
                   workerVars>>

\* a new EmailSender
InitPool ==
    /\ now = ClockReading(1)
    /\ limits = [email |-> 1, linkedin |-> 1]
    /\ store = <<>>
    /\ runs = [r \in Runs |-> IdleRun]
    /\ errText = <<>>
    /\ errResult = <<>>
    /\ NoDelivery
    /\ NoTracking
    /\ NoPool
    /\ NoWorkers

NextPool ==
    \/ \E api_key \in ApiKeys, construction_fails \in BOOLEAN :
          GetSendgridClient(api_key, construction_fails)
    \/ PoolTick

SpecPool == InitPool /\ [][NextPool]_vars

\* the pool of every API key is within MAX_POOL_SIZE and its two lists
\* have one length
PoolBounded ==
    \A api_key \in DOMAIN api_clients :
       /\ Len(api_clients[api_key]) <= MAX_POOL_SIZE
       /\ api_key \in DOMAIN client_timestamps
       /\ Len(api_clients[api_key]) = Len(client_timestamps[api_key])

\* the last acquisition with an API key returned a client unless the
\* construction of a client raised
ReturnsClient ==
    \A i \in DOMAIN acquired :
       (acquired[i].api_key # "" /\ acquired[i].client = NoClient)
          => acquired[i].construction = "failed"

\* C34 -- the provider client pool does not grow without bound: after any
\* sequence of acquisitions and expiries, every credential has at most
\* MAX_POOL_SIZE clients, its client list and its creation-time list have
\* the same length, and an acquisition with a non-empty credential returns
\* a client unless the construction of a client fails.
C34_PoolBounded == PoolBounded /\ ReturnsClient

\* the client of a key was handed out twice from the pool, expired, and the
\* next acquisition put a fresh client in its place
C34_Witness ==
    /\ "SG.key_1" \in DOMAIN api_clients
    /\ api_clients["SG.key_1"] = <<[born |-> 300]>>
    /\ client_timestamps["SG.key_1"] = <<300>>
    /\ client_usage_count["SG.key_1"] = 2
    /\ acquired[1].client = [born |-> 300]

\* the age of the client the last acquisition returned is below
\* POOL_TIMEOUT
ReturnsFresh ==
    \A i \in DOMAIN acquired :
       acquired[i].client # NoClient
          => acquired[i].current_time - acquired[i].client.born
                < POOL_TIMEOUT

\* an acquisition leaves no expired client in the pool of its key, and
\* returns a client constructed in the call when every client of the key
\* had expired
ExpiresOnAcquisition ==
    LET a == acquired'[1]
        before == GetOr(api_clients, a.api_key, <<>>)
        after == api_clients'[a.api_key]
    IN  (acquired' # acquired /\ a.api_key # "")
        => /\ \A i \in DOMAIN after :
                 a.current_time - after[i].born < POOL_TIMEOUT
           /\ ( /\ \A i \in DOMAIN before :
                      a.current_time - before[i].born >= POOL_TIMEOUT
                /\ a.construction # "failed" )
                 => /\ a.client = [born |-> a.current_time]
                    /\ after = <<a.client>>

\* C35 -- time-boxed expiry: an acquisition never returns a client whose
\* age is POOL_TIMEOUT or more; expired clients are removed from the pool
\* on the next acquisition for that credential, and a fresh client is
\* created when the pool is then empty.
C35_TimeBoxedExpiry == []ReturnsFresh /\ [][ExpiresOnAcquisition]_vars

\* a client constructed at 100 was returned again at 300 and, exactly
\* POOL_TIMEOUT old at 400, was replaced by a client constructed at 400
C35_Witness ==
    /\ acquired # <<>>
    /\ acquired[1].n = 3
    /\ acquired[1].api_key = "SG.key_2"
    /\ acquired[1].current_time = 400
    /\ acquired[1].client = [born |-> 400]
    /\ client_usage_count["SG.key_2"] = 1

---------------------------------------------------------------------------
(* The job queue and its workers (background/render_worker.py)             *)

max_retries == 3

\* the most rows of the jobs table and the most calls of _execute_job of a
\* behaviour
MaxJobs == 2
MaxExecutions == 3

\* a worker between two polls
PollingWorker == [pc |-> "poll", job |-> 0, retry_count |-> 0]

\* the ids of the rows of the jobs table, in the order of the select
JobIds == 1 .. Len(jobs)

\* JobScheduler.schedule_job: a job is queued
ScheduleJob ==
    /\ Len(jobs) < MaxJobs
    /\ jobs' = Append(jobs, [status |-> "pending", retry_count |-> 0])
    /\ UNCHANGED <<now, limits, store, runs, errText, errResult,
                   deliveryVars, trackerVars, poolVars, workers, executed>>

\* _get_next_job: the select of the first pending job
SelectPending(w) ==
    LET pending == {j \in JobIds : jobs[j].status = "pending"}
        job == CHOOSE j \in pending : \A i \in pending : j <= i
    IN  /\ workers[w].pc = "poll"
        /\ pending # {}
        /\ workers' = [workers EXCEPT ![w] =
              [pc |-> "mark", job |-> job,
               retry_count |-> jobs[job].retry_count]]
        /\ UNCHANGED <<now, limits, store, runs, errText, errResult,
                       deliveryVars, trackerVars, poolVars, jobs, executed>>

\* _get_next_job: the update that marks the selected job as processing,
\* filtered by the id of the job only; when the update raises the worker
\* goes back to polling
MarkProcessing(w) ==
    /\ workers[w].pc = "mark"
    /\ \E update_raises \in BOOLEAN :
          IF update_raises
          THEN /\ workers' = [workers EXCEPT ![w] = PollingWorker]
               /\ UNCHANGED jobs
          ELSE /\ jobs' = [jobs EXCEPT ![workers[w].job].status =
                              "processing"]
               /\ workers' = [workers EXCEPT ![w].pc = "execute"]
    /\ UNCHANGED <<now, limits, store, runs, errText, errResult,
                   deliveryVars, trackerVars, poolVars, executed>>

\* _execute_job: the job runs and its row is set to completed, to failed
\* (timeout, or no retry left) or back to pending for a retry; retry_count
\* is read from the row the worker selected
ExecuteJob(w) ==
    LET job == workers[w].job
        retry_count == workers[w].retry_count
    IN  /\ workers[w].pc = "execute"
        /\ Len(executed) < MaxExecutions
        /\ executed' = Append(executed,
              [worker |-> w, job |-> job, retry_count |-> retry_count])
        /\ \E outcome \in {"completed", "timeout", "raised"} :
              jobs' = [jobs EXCEPT ![job] =
                 IF outcome = "completed"
                 THEN [@ EXCEPT !.status = "completed"]
                 ELSE IF outcome = "timeout"
                 THEN [@ EXCEPT !.status = "failed"]
                 ELSE IF retry_count < max_retries
                 THEN [@ EXCEPT !.status = "pending",
                                !.retry_count = retry_count + 1]
                 ELSE [@ EXCEPT !.status = "failed"]]
        /\ workers' = [workers EXCEPT ![w] = PollingWorker]
        /\ UNCHANGED <<now, limits, store, runs, errText, errResult,
                       deliveryVars, trackerVars, poolVars>>

\* two workers poll an empty jobs table
InitWorkers ==
    /\ now = ClockReading(1)
    /\ limits = [email |-> 1, linkedin |-> 1]
    /\ store = <<>>
    /\ runs = [r \in Runs |-> IdleRun]
    /\ errText = <<>>
    /\ errResult = <<>>
    /\ NoDelivery
    /\ NoTracking
    /\ NoPool
    /\ jobs = <<>>
    /\ workers = [w \in Runs |-> PollingWorker]
    /\ executed = <<>>

NextWorkers ==
    \/ ScheduleJob
    \/ \E w \in Runs : SelectPending(w)
    \/ \E w \in Runs : MarkProcessing(w)
    \/ \E w \in Runs : ExecuteJob(w)

SpecWorkers == InitWorkers /\ [][NextWorkers]_vars

\* C36 -- marking a picked job as processing prevents double processing:
\* with two workers polling the same jobs table, for every interleaving of
\* their select and mark steps, a pending job (a job at one retry count) is
\* executed by at most one worker.
C36_PickedOnce ==
    \A i, j \in DOMAIN executed :
       ( /\ executed[i].job = executed[j].job
         /\ executed[i].retry_count = executed[j].retry_count )
          => i = j

\* a step of run r that schedules a message gives it a send_at that is not
\* before the clock reading of the step
NotInPast(r) ==
    LET scheduled == runs'[r].scheduled_messages
    IN  (IsStep(r) /\ Len(scheduled) = Len(runs[r].scheduled_messages) + 1)
        => scheduled[Len(scheduled)].send_at >= now

\* C37 -- every send_at returned by the slot finder is not in the past: at
\* the moment a slot is returned send_at >= now, for every occupancy map
\* and every current time.
C37_NotInPast == [][\A r \in Runs : NotInPast(r)]_vars

\* inside the business window a run was given the slot one minute from now
C37_Witness ==
    \E r \in Runs :
       /\ runs[r].scheduled_messages # <<>>
       /\ now > Localize(LocalDate(now), BUSINESS_START_HOUR)
       /\ runs[r].scheduled_messages[1].send_at = now + 1

\* the send_email job of worker w holds a result that says the provider
\* accepted message m
AcceptedFor(w, m) ==
    \E j \in DOMAIN sendJobs[w].results :
       /\ sendJobs[w].results[j].message_id = m
       /\ sendJobs[w].results[j].sendgrid_message_id # NoId

\* no two send_email jobs have had the same message accepted
AcceptedOnce ==
    \A m \in MessageIds : \A w1, w2 \in Runs :
       (AcceptedFor(w1, m) /\ AcceptedFor(w2, m)) => w1 = w2

\* the calls of sg_client.send made in this step name no message whose
\* stored status is sent
SentNotResubmitted ==
    \A c \in Len(providerCalls) + 1 .. Len(providerCalls') :
       \A j \in DOMAIN providerCalls'[c] :
          messageRows[providerCalls'[c][j]].status # "sent"

\* C38 -- at-most-once delivery: over any sequence or interleaving of
\* send_email jobs that name the same message id, a message is accepted by
\* the provider at most once, and a message that has already been sent is
\* never submitted to the provider again.
C38_AtMostOnce == []AcceptedOnce /\ [][SentNotResubmitted]_vars

\* the messages of a pass whose stored status is one of statuses
StoredAs(messages, statuses) ==
    {j \in DOMAIN messages : messageRows[messages[j]].status \in statuses}

\* once the handler has persisted the results of a pass of the engine, as
\* many messages of the pass are stored as sent as the engine counted as
\* sent, and as many as failed or retry_pending as it counted as failed
AggregatesPersisted(w) ==
    LET job == sendJobs[w]
    IN  (job.pc \in {"retry", "done"} /\ job.results # <<>>)
        => /\ Cardinality(StoredAs(job.messages, {"sent"})) = job.sent
           /\ Cardinality(StoredAs(job.messages,
                                   {"failed", "retry_pending"}))
                 = job.failed

\* C39 -- every message the batch delivery engine counts in its sent
\* aggregate is persisted by the handler with status sent, and every
\* message it counts as failed is persisted as failed or retry_pending, for
\* every provider response, a successful response without message
\* identifier included.
C39_AggregatesPersisted == AggregatesPersisted(SendWorker)

\* the final statistics _handle_send_email returns for a job that has
\* reached its end: retry_results is None when no retry was made or the
\* retry invocation failed
Summary(job) ==
    LET retried == job.pass = "retry"
        initial_sent == IF retried THEN job.send_data.sent ELSE job.sent
        initial_failed ==
            IF retried THEN job.send_data.failed ELSE job.failed
        retry_sent == IF retried THEN job.sent ELSE 0
        retry_failed == IF retried THEN job.failed ELSE 0
    IN  [messages_processed |-> Len(job.selected),
         retry_attempted |-> Len(job.failed_results),
         final_sent |-> initial_sent + retry_sent,
         final_failed |->
             initial_failed - Len(job.failed_results) + retry_failed]

\* the summary of the job of worker w adds up and agrees with the store
SummaryConsistent(w) ==
    LET job == sendJobs[w]
        summary == Summary(job)
    IN  job.pc = "done"
        => /\ summary.final_sent + summary.final_failed
                 = summary.messages_processed
           /\ summary.final_sent
                 = Cardinality(StoredAs(job.selected, {"sent"}))
           /\ summary.final_failed >= 0

\* C40 -- the result summary of the send_email handler is consistent:
\* whenever the handler returns, final_sent + final_failed =
\* messages_processed, final_sent is the number of messages whose final
\* status is sent, and final_failed >= 0, whatever the outcome of the first
\* pass and of the retry pass, a failing retry invocation included.
C40_SummaryConsistent == SummaryConsistent(SendWorker)
=======================================================================
